---------------------------- MODULE Spec2Model ----------------------------
(***************************************************************************)
(* A model of the MoltBot/ClawdBot honeypot: the Attack Store              *)
(* (storage/attack-store.js), the HTTP gateway (http-server.js), the       *)
(* WebSocket gateway (websocket-server.js, both variants found in the      *)
(* repository), the UDP mDNS responder (mdns-server.js) and the admin      *)
(* server (admin/server.js).                                               *)
(*                                                                         *)
(* Sixteen specifications share the variables:                             *)
(*   Spec          the store's record operations called directly           *)
(*   CategorySpec  one HTTP request of any path and body recorded          *)
(*   DurableSpec   the record operations statement by statement, with      *)
(*                 process stops and write failures                        *)
(*   HttpSpec      requests to the gateway's Express application           *)
(*   WsSpec        one WebSocket connection, its frames and its timers     *)
(*   WsLiveSpec    WsSpec on fewer frames, with the event loop's fairness  *)
(*   MdnsSpec      datagrams to the mDNS responder                         *)
(*   DispatchSpec  handleRequest applied to one request frame              *)
(*   RestartSpec   the store over restarts, its records stamped by a clock *)
(*   SnapshotSpec  the store with a caller keeping what getStats returned  *)
(*   StartSpec     main() starting the servers in a given environment      *)
(*   MixSpec       the handlers of all listeners in any order on one store *)
(*   AdminSpec     requests to the admin server beside the store           *)
(*   AdminLiveSpec the dashboard's stream with its timer firing            *)
(*   EffectSpec    reading and writing requests on one connection          *)
(*   ReplySpec     buildResponse applied to one parsed query               *)
(***************************************************************************)
EXTENDS Integers, Sequences, FiniteSets, TLC

VARIABLES
    store,       \* the AttackStore singleton: attacks, stats, maxInMemory, and the data directory
    diskFaulty,  \* environment: writes to the data directory fail (missing, read-only, full)
    appended,    \* history: every attack record ever created, in creation order
    ws,          \* one WebSocket connection: readyState, timers, and the history of its frames
    http,        \* the HTTP gateway: the history of requests and what was done for each
    mdns,        \* the mDNS responder: the history of datagrams and replies
    probe        \* DispatchSpec: one request frame and handleRequest's answer to it;
                 \* DurableSpec: the record operation in progress;
                 \* RestartSpec: the wall clock and the store before the restart;
                 \* SnapshotSpec: the object getStats returned; StartSpec: the process
                 \* AdminSpec: the admin server's requests, answers and stream;
                 \* EffectSpec: the config object and the calls made;
                 \* ReplySpec: one query and the reply built for it

vars == <<store, diskFaulty, appended, ws, http, mdns, probe>>

(***************************************************************************)
(* Bounds of the model.                                                    *)
(***************************************************************************)
MaxEvents == 3        \* record operations in a run of Spec
MaxCap == 2           \* the capacities explored are 0 .. MaxCap

NA == "n/a"           \* a field the record kind does not have (undefined)

IPs == {"10.0.0.1", "10.0.0.2"}

(***************************************************************************)
(* JavaScript helpers.                                                     *)
(***************************************************************************)
Min(a, b) == IF a < b THEN a ELSE b
Max(a, b) == IF a > b THEN a ELSE b

\* Array.prototype.slice(start, end): a negative index counts from the end,
\* and -0 is 0.
jsSlice(arr, start, end) ==
    LET len == Len(arr)
        k == IF start < 0 THEN Max(len + start, 0) ELSE Min(start, len)
        final == IF end < 0 THEN Max(len + end, 0) ELSE Min(end, len)
    IN  IF final <= k THEN << >> ELSE SubSeq(arr, k + 1, final)

\* arr.slice(start): to the end of the array.
jsSliceFrom(arr, start) == jsSlice(arr, start, Len(arr))

\* Array.prototype.reverse on a copy.
jsReverse(arr) == [i \in 1 .. Len(arr) |-> arr[Len(arr) + 1 - i]]

\* obj[key] = (obj[key] || 0) + 1 on a plain object.
Bump(obj, key) ==
    [k \in DOMAIN obj \cup {key} |->
        IF k = key THEN (IF key \in DOMAIN obj THEN obj[key] ELSE 0) + 1 ELSE obj[k]]

\* obj[key] || 0
Count(obj, key) == IF key \in DOMAIN obj THEN obj[key] ELSE 0

(***************************************************************************)
(* Strings are modelled as sequences of tokens: a token is a substring the *)
(* code searches for (in some letter case) or a filler. toLowerCase maps   *)
(* every token to its lower-case form; includes(t) finds the token t.      *)
(***************************************************************************)
LowerTok(t) ==
    CASE t = "/TOOLS/INVOKE" -> "/tools/invoke"
      [] t = "/V1/CHAT/COMPLETIONS" -> "/v1/chat/completions"
      [] t = "/V1/RESPONSES" -> "/v1/responses"
      [] t = "/V1/MODELS" -> "/v1/models"
      [] t = "/HEALTH" -> "/health"
      [] t = "IGNORE" -> "ignore"
      [] t = "SYSTEM" -> "system"
      [] t = "JAILBREAK" -> "jailbreak"
      [] t = "Jailbreak" -> "jailbreak"
      [] OTHER -> t

toLowerCase(str) == [i \in 1 .. Len(str) |-> LowerTok(str[i])]

includes(str, t) == \E i \in 1 .. Len(str) : str[i] = t

(***************************************************************************)
(* The Attack Store.                                                       *)
(***************************************************************************)
EmptyStats ==
    [ totalHttpRequests |-> 0,
      totalWsConnections |-> 0,
      totalWsMessages |-> 0,
      totalMdnsQueries |-> 0,
      uniqueIps |-> {},
      attacksByType |-> << >>,
      attacksByEndpoint |-> << >> ]

\* new AttackStore() on an empty data directory.
NewStore(cap) ==
    [ attacks |-> << >>,
      stats |-> EmptyStats,
      maxInMemory |-> cap,
      logFile |-> << >>,
      statsFile |-> [exists |-> FALSE, data |-> EmptyStats] ]

\* writeFileSync of the whole stats object; a failure is logged and swallowed.
saveStats(s, ok) ==
    IF ok THEN [s EXCEPT !.statsFile = [exists |-> TRUE, data |-> s.stats]] ELSE s

\* appendFileSync of one line; a failure is logged and swallowed.
appendToLog(s, attack, ok) ==
    IF ok THEN [s EXCEPT !.logFile = Append(@, attack)] ELSE s

addAttackKeepOldest(s, attack, ok) ==
    LET pushed == appendToLog([s EXCEPT !.attacks = Append(@, attack)], attack, ok)
    IN  IF Len(pushed.attacks) > pushed.maxInMemory
        THEN [pushed EXCEPT !.attacks = jsSlice(@, 0, pushed.maxInMemory)]
        ELSE pushed

\* push, append to the daily log, then attacks.slice(-maxInMemory) when over capacity.
addAttack(s, attack, ok) ==
    LET pushed == appendToLog([s EXCEPT !.attacks = Append(@, attack)], attack, ok)
    IN  IF Len(pushed.attacks) > pushed.maxInMemory
        THEN [pushed EXCEPT !.attacks = jsSliceFrom(@, 0 - pushed.maxInMemory)]
        ELSE pushed

incrementEndpointStat(st, endpoint) ==
    [st EXCEPT !.attacksByEndpoint = Bump(@, endpoint)]

incrementTypeStat(st, type) ==
    [st EXCEPT !.attacksByType = Bump(@, type)]

categorizeAttackModelsFirst(data) ==
    LET path == toLowerCase(data.path)
        body == toLowerCase(data.body)
    IN  IF includes(path, "/v1/models") THEN "reconnaissance"
        ELSE IF includes(path, "/tools/invoke") THEN "tool_invoke"
        ELSE IF includes(path, "/v1/chat/completions")
             THEN IF includes(body, "ignore") \/ includes(body, "system") \/ includes(body, "jailbreak")
                  THEN "prompt_injection" ELSE "chat_completion"
        ELSE IF includes(path, "/v1/responses") THEN "openresponses"
        ELSE IF path = <<"/">> THEN "ui_access"
        ELSE IF includes(path, "/health") THEN "health_check"
        ELSE "other"

\* data.path?.toLowerCase() || '' and JSON.stringify(data.body || '').toLowerCase(),
\* then the first matching rule.
categorizeAttack(data) ==
    LET path == toLowerCase(data.path)
        body == toLowerCase(data.body)
    IN  IF includes(path, "/tools/invoke") THEN "tool_invoke"
        ELSE IF includes(path, "/v1/chat/completions")
             THEN IF \/ includes(body, "ignore")
                     \/ includes(body, "system")
                     \/ includes(body, "jailbreak")
                  THEN "prompt_injection"
                  ELSE "chat_completion"
        ELSE IF includes(path, "/v1/responses") THEN "openresponses"
        ELSE IF includes(path, "/v1/models") THEN "reconnaissance"
        ELSE IF path = <<"/">> THEN "ui_access"
        ELSE IF includes(path, "/health") THEN "health_check"
        ELSE "other"

(***************************************************************************)
(* A decoded WebSocket message as the store sees it: kind is "null" (JSON  *)
(* null), "falsy" (false, 0, ""), "scalar" (any other non-object), "obj"   *)
(* (an object or array) or "parse_error" (the object the handler builds    *)
(* for a frame JSON.parse rejected, with the length of its raw excerpt).   *)
(* method is the object's method member in lower case-preserving tokens.   *)
(***************************************************************************)
LowerMethod(m) ==
    CASE m = "CONNECT" -> "connect"
      [] m = "Health" -> "health"
      [] OTHER -> m

\* !message
Falsy(message) == message.kind \in {"null", "falsy"}

\* data.message?.method: only an object has one.
MethodOf(message) == IF message.kind = "obj" THEN message.method ELSE NA

categorizeWsMessage(message) ==
    IF Falsy(message) THEN "malformed"
    ELSE LET method == IF MethodOf(message) = NA THEN "" ELSE LowerMethod(MethodOf(message))
         IN  IF method = "connect" THEN "ws_auth"
             ELSE IF method = "send" THEN "ws_send"
             ELSE IF method = "agent" THEN "ws_agent"
             ELSE IF method = "health" THEN "ws_health"
             ELSE "ws_other"

\* types[qtype] || `TYPE${qtype}`
getDnsTypeName(qtype) ==
    CASE qtype = 1 -> [name |-> "A", n |-> 0]
      [] qtype = 12 -> [name |-> "PTR", n |-> 0]
      [] qtype = 16 -> [name |-> "TXT", n |-> 0]
      [] qtype = 28 -> [name |-> "AAAA", n |-> 0]
      [] qtype = 33 -> [name |-> "SRV", n |-> 0]
      [] qtype = 47 -> [name |-> "NSEC", n |-> 0]
      [] qtype = 255 -> [name |-> "ANY", n |-> 0]
      [] OTHER -> [name |-> "TYPE", n |-> qtype]

\* The attack records. id stands for `${kind}-${Date.now()}-${random}`: the
\* creation number of the record.
\* The fields of an attack object that the model follows.  The timestamp is
\* the millisecond of creation: by default each record has a millisecond of
\* its own, later than those before it.
Attack(id, type, ip, category) ==
    [ id |-> id, timestamp |-> id, type |-> type, ip |-> ip, category |-> category,
      path |-> << >>, body |-> << >>, method |-> NA, rawLen |-> 0, message |-> NA,
      queryTypeName |-> [name |-> NA, n |-> 0] ]

httpAttack(id, data) ==
    [Attack(id, "http", data.ip, categorizeAttack(data)) EXCEPT
        !.path = data.path, !.body = data.body, !.method = data.method]

wsConnectionAttack(id, data) == Attack(id, "ws_connection", data.ip, "ws_connect")

wsMessageAttack(id, data) ==
    [Attack(id, "ws_message", data.ip, categorizeWsMessage(data.message)) EXCEPT
        !.method = MethodOf(data.message),
        !.message = data.message.kind,
        !.rawLen = data.message.rawLen]

mdnsAttack(id, data) ==
    [Attack(id, "mdns_query", data.ip, "mdns_discovery") EXCEPT
        !.queryTypeName = getDnsTypeName(data.queryType)]

recordHttpRequest(s, id, data, ok) ==
    LET attack == httpAttack(id, data)
        s1 == addAttack(s, attack, ok)
        st == [s1.stats EXCEPT !.totalHttpRequests = @ + 1,
                               !.uniqueIps = @ \cup {data.ip}]
        st2 == incrementTypeStat(incrementEndpointStat(st, data.path), attack.category)
    IN  saveStats([s1 EXCEPT !.stats = st2], ok)

\* A recordWsConnection that gives way between _addAttack and the counters:
\* the state left is the one its first half has made.
recordWsConnectionUncounted(s, id, data, ok) ==
    addAttack(s, wsConnectionAttack(id, data), ok)

recordWsConnection(s, id, data, ok) ==
    LET attack == wsConnectionAttack(id, data)
        s1 == addAttack(s, attack, ok)
        st == [s1.stats EXCEPT !.totalWsConnections = @ + 1,
                               !.uniqueIps = @ \cup {data.ip}]
    IN  saveStats([s1 EXCEPT !.stats = incrementTypeStat(st, "ws_connect")], ok)

recordWsMessageCountingIp(s, id, data, ok) ==
    LET attack == wsMessageAttack(id, data)
        s1 == addAttack(s, attack, ok)
        st == [s1.stats EXCEPT !.totalWsMessages = @ + 1,
                               !.uniqueIps = @ \cup {data.ip}]
    IN  saveStats([s1 EXCEPT !.stats = incrementTypeStat(st, attack.category)], ok)

recordWsMessage(s, id, data, ok) ==
    LET attack == wsMessageAttack(id, data)
        s1 == addAttack(s, attack, ok)
        st == [s1.stats EXCEPT !.totalWsMessages = @ + 1]
    IN  saveStats([s1 EXCEPT !.stats = incrementTypeStat(st, attack.category)], ok)

recordMdnsQuery(s, id, data, ok) ==
    LET attack == mdnsAttack(id, data)
        s1 == addAttack(s, attack, ok)
        st == [s1.stats EXCEPT !.totalMdnsQueries = @ + 1,
                               !.uniqueIps = @ \cup {data.ip}]
    IN  saveStats([s1 EXCEPT !.stats = incrementTypeStat(st, "mdns_discovery")], ok)

\* this.attacks.slice().reverse().slice(offset, offset + limit)
getRecentAttacks(s, limit, offset) ==
    jsSlice(jsReverse(s.attacks), offset, offset + limit)

\* this.attacks.filter(a => a.category === type || a.type === type)
\*     .slice(-limit).reverse()
getAttacksByType(s, type, limit) ==
    LET matching == SelectSeq(s.attacks, LAMBDA a : a.category = type \/ a.type = type)
    IN  jsReverse(jsSliceFrom(matching, 0 - limit))

\* The summary object; uptimeMs is left out (it reads the wall clock).
getStats(s) ==
    [ totalHttpRequests |-> s.stats.totalHttpRequests,
      totalWsConnections |-> s.stats.totalWsConnections,
      totalWsMessages |-> s.stats.totalWsMessages,
      totalMdnsQueries |-> s.stats.totalMdnsQueries,
      uniqueIps |-> Cardinality(s.stats.uniqueIps),
      attacksByType |-> s.stats.attacksByType,
      attacksByEndpoint |-> s.stats.attacksByEndpoint,
      attacksInMemory |-> Len(s.attacks) ]

(***************************************************************************)
(* Inputs of the record operations.                                        *)
(***************************************************************************)
HttpData(ip, method, path, body) ==
    [ip |-> ip, method |-> method, path |-> path, body |-> body]

HttpSamples ==
    { HttpData(ip, "GET", <<"/">>, << >>) : ip \in IPs } \cup
    { HttpData(ip, "POST", <<"/V1/CHAT/COMPLETIONS">>, <<"hello">>) : ip \in IPs } \cup
    { HttpData(ip, "POST", <<"/v1/chat/completions">>, <<"IGNORE", "hello">>) : ip \in IPs } \cup
    { HttpData(ip, "POST", <<"/api", "/tools/invoke">>, << >>) : ip \in IPs }

WsMessage(kind, method, rawLen) == [kind |-> kind, method |-> method, rawLen |-> rawLen]

WsMessageSamples ==
    { WsMessage("null", NA, 0),
      WsMessage("obj", "CONNECT", 0),
      WsMessage("obj", NA, 0) }

MdnsTypes == {12, 99}

NextId == Len(appended) + 1


(***************************************************************************)
(* Inputs of the classification: a path is one or two pieces of text, a    *)
(* body is what the body parser handed over, as pieces of text.            *)
(***************************************************************************)
PathToks ==
    { "/tools/invoke", "/TOOLS/INVOKE", "/v1/chat/completions", "/V1/CHAT/COMPLETIONS",
      "/v1/responses", "/v1/models", "/", "/health", "/api" }

PathSamples ==
    { <<t>> : t \in PathToks } \cup { <<t, u>> : t, u \in PathToks }

BodySamples ==
    { << >>, <<"hello">>, <<"hello", "ignore">>, <<"SYSTEM">>, <<"Jailbreak">>,
      <<"JAILBREAK", "hello">> }

Methods == {"GET", "POST"}
(***************************************************************************)
(* The WebSocket gateway (websocket-server.js).                            *)
(*                                                                         *)
(* The repository holds two versions of the file: "rich" (the full method  *)
(* table, one run id per agent run) and "lean" (ten methods, a fresh run   *)
(* id in every frame). ws.variant says which one runs.                     *)
(*                                                                         *)
(* An inbound frame is [kind, type, method, params, rawLen, id]:           *)
(*   kind    "invalid" (JSON.parse throws), "null", "falsy" (false, 0,     *)
(*           ""), "scalar" (another non-object) or "obj"                   *)
(*   type, method, id   the members of an object (NA when absent)          *)
(*   params  [prompt, message, token]: each "absent", "empty" (the empty   *)
(*           string), "str" (a non-empty string) or "bad" (an object       *)
(*           whose member `slice` is not a function, as {"slice":1});      *)
(*           token is params.auth.token                                    *)
(*   rawLen  the length of the frame's text                                *)
(***************************************************************************)
MaxFrames == 2        \* inbound frames on the connection
MaxTicks == 1         \* ticks of the interval that are followed
MaxLate == 4          \* how long (in TimeUnit) a due timer may be kept waiting

RawCap == 500             \* data.toString().slice(0, 500)
StartedMs == 200          \* setTimeout(..., 200): agent.started
CompletedMs == 1000       \* setTimeout(..., 1000): agent.completed
TickMs == 30000           \* setInterval(..., 30000)
DefaultCap == 10000       \* MAX_ATTACKS_MEMORY || '10000'

\* Time is counted in units of the shortest delay.
TimeUnit == StartedMs
StartedDelay == StartedMs \div TimeUnit
CompletedDelay == CompletedMs \div TimeUnit
TickUnits == TickMs \div TimeUnit

Params(prompt, message, token) ==
    [prompt |-> prompt, message |-> message, token |-> token]

NoParams == Params("absent", "absent", "absent")

Frame(kind, type, method, params, rawLen) ==
    [ kind |-> kind, type |-> type, method |-> method, params |-> params,
      rawLen |-> rawLen, id |-> 0 ]

ReqFrame(method, params) == Frame("obj", "req", method, params, 40)

FrameSamples ==
    { Frame("invalid", NA, NA, NoParams, n) : n \in {0, 7, RawCap + 1} } \cup
    { Frame("null", NA, NA, NoParams, 4),
      Frame("falsy", NA, NA, NoParams, 1),
      Frame("scalar", NA, NA, NoParams, 2),
      Frame("obj", "event", "health", NoParams, 30),
      ReqFrame("connect", Params("absent", "absent", "str")),
      ReqFrame("connect", Params("absent", "absent", "bad")),
      ReqFrame("health", NoParams),
      ReqFrame("send", Params("absent", "bad", "absent")),
      ReqFrame("agent", Params("str", "absent", "absent")),
      ReqFrame("agent.run", Params("empty", "bad", "absent")),
      ReqFrame("models.list", NoParams),
      ReqFrame("CONNECT", NoParams),
      ReqFrame("totally.unknown", NoParams) }

\* The cases of handleRequest's switch, in each version of the file.
RichMethods ==
    { "connect", "health", "status", "models.list", "usage.status",
      "sessions.list", "sessions.preview", "sessions.delete", "sessions.reset",
      "sessions.compact", "agent", "agent.run", "agent.identity.get",
      "agent.wait", "agents.list", "send", "chat.send", "chat.history",
      "chat.abort", "config.get", "config.set", "config.schema", "config.patch",
      "node.list", "node.describe", "node.pair.request", "node.pair.list",
      "node.pair.approve" }

LeanMethods ==
    { "connect", "health", "send", "agent", "agent.run", "chat.send",
      "chat.history", "sessions.list", "node.list", "status" }

\* features.methods of the hello-ok payload, in each version of the file.
RichFeatures ==
    { "health", "status", "sessions.list", "sessions.preview", "sessions.delete",
      "sessions.reset", "sessions.compact", "agent", "agent.identity.get",
      "agent.wait", "agents.list", "chat.send", "chat.history", "chat.abort",
      "config.get", "config.set", "config.schema", "config.patch", "node.list",
      "node.describe", "node.pair.request", "node.pair.list", "node.pair.approve",
      "models.list", "usage.status" }

LeanFeatures ==
    { "health", "send", "agent", "chat.send", "chat.history", "sessions.list",
      "node.list" }

featuresMethods(variant) == IF variant = "rich" THEN RichFeatures ELSE LeanFeatures

SwitchCases(variant) == IF variant = "rich" THEN RichMethods ELSE LeanMethods

\* v?.slice?.(0, n): "threw" when v.slice exists and is not callable.
OptSlice(v) ==
    CASE v = "bad" -> "threw"
      [] v = "str" -> "str"
      [] v = "empty" -> "empty"
      [] OTHER -> "undefined"

\* Whether the arguments of the case's console.log throw.
\*   connect:          token?.slice?.(0, 10) + '...'
\*   send:             params?.message?.slice?.(0, 100) || params?.message
\*   chat.send:        params?.message?.slice?.(0, 100)
\*   agent, agent.run: params?.prompt?.slice?.(0, 100) || params?.message?.slice?.(0, 100)
LogThrows(method, params) ==
    CASE method = "connect" -> OptSlice(params.token) = "threw"
      [] method \in {"send", "chat.send"} -> OptSlice(params.message) = "threw"
      [] method \in {"agent", "agent.run"} ->
            \/ OptSlice(params.prompt) = "threw"
            \/ /\ OptSlice(params.prompt) \in {"undefined", "empty"}
               /\ OptSlice(params.message) = "threw"
      [] OTHER -> FALSE

\* What distinguishes the payload of each case.
PayloadOf(method) ==
    CASE method = "connect" -> "hello-ok"
      [] method \in {"agent", "agent.run"} -> "queued"
      [] method \in {"send", "chat.send"} -> "sent"
      [] OTHER -> method

Response(ok, payload, code) == [ok |-> ok, payload |-> payload, code |-> code]

NoResponse == Response(FALSE, NA, NA)

\* handleRequest: [threw, res, agent]. threw: an exception left the function
\* before sendResponse; res: the arguments of sendResponse; agent: the two
\* agent timers are set.
handleRequest(variant, message) ==
    IF message.method \in SwitchCases(variant)
    THEN IF LogThrows(message.method, message.params)
         THEN [threw |-> TRUE, res |-> NoResponse, agent |-> FALSE]
         ELSE [ threw |-> FALSE,
                res |-> Response(TRUE, PayloadOf(message.method), NA),
                agent |-> message.method \in {"agent", "agent.run"} ]
    ELSE [ threw |-> FALSE,
           res |-> Response(FALSE, NA, "UNKNOWN_METHOD"),
           agent |-> FALSE ]

(***************************************************************************)
(* The history of a connection: what its handlers did, in the order they   *)
(* did it. nf is the number of the inbound frame being handled (0 for the  *)
(* connection handler and for timers); run the number of the frame that    *)
(* started an agent run. op is "record" (a call of the store), "send" (a   *)
(* frame written to the socket), "timer" (a timer's callback ran), "error" *)
(* or "close" (the socket's events). For a send, checked says that the     *)
(* code compared ws.readyState with ws.OPEN before it, and state is the    *)
(* readyState the frame was written in.                                    *)
(***************************************************************************)
Entry(op, type) ==
    [ op |-> op, type |-> type, nf |-> 0, category |-> NA, rawLen |-> 0,
      event |-> NA, id |-> 0, ok |-> FALSE, payload |-> NA, code |-> NA,
      run |-> 0, runId |-> 0, checked |-> FALSE, state |-> NA ]

Recorded(nf, attack) ==
    [Entry("record", attack.type) EXCEPT
        !.nf = nf, !.category = attack.category, !.rawLen = attack.rawLen]

\* sendResponse, past its readyState check.
SentRes(nf, id, res) ==
    [Entry("send", "res") EXCEPT
        !.nf = nf, !.id = id, !.ok = res.ok, !.payload = res.payload, !.code = res.code,
        !.checked = TRUE]

\* sendEvent (and the tick), past the readyState check.
SentEvent(event, run, runId) ==
    [Entry("send", "event") EXCEPT
        !.event = event, !.run = run, !.runId = runId, !.checked = TRUE]

\* ws.send called directly, with no check before it.
SentUnchecked(event) == [Entry("send", "event") EXCEPT !.event = event]

\* A timer's callback was called.
TimerRan(t) == [Entry("timer", NA) EXCEPT !.event = t.cb, !.run = t.run]

\* The entries of one handler, made while the socket was in readyState.
Stamp(entries, readyState) ==
    [i \in 1 .. Len(entries) |-> [entries[i] EXCEPT !.state = readyState]]

\* The message the store is given for a decoded frame, and for a frame (or a
\* handler) that threw.
Decoded(frame) == WsMessage(frame.kind, IF frame.kind = "obj" THEN frame.method ELSE NA, 0)

ParseError(frame) == WsMessage("parse_error", NA, Min(frame.rawLen, RawCap))

\* message.type: reading a member of null throws.
TypeThrows(frame) == frame.kind = "null"

\* ws.on('message'): the messages handed to recordWsMessage, in order, and
\* handleRequest's result when it was called and returned.
onMessage(variant, frame) ==
    IF frame.kind = "invalid"
    THEN [msgs |-> <<ParseError(frame)>>, called |-> FALSE, hr |-> handleRequest(variant, frame)]
    ELSE IF TypeThrows(frame)
    THEN [msgs |-> <<Decoded(frame), ParseError(frame)>>, called |-> FALSE,
          hr |-> handleRequest(variant, frame)]
    ELSE IF frame.kind = "obj" /\ frame.type = "req"
    THEN LET hr == handleRequest(variant, frame)
         IN  IF hr.threw
             THEN [msgs |-> <<Decoded(frame), ParseError(frame)>>, called |-> FALSE, hr |-> hr]
             ELSE [msgs |-> <<Decoded(frame)>>, called |-> TRUE, hr |-> hr]
    ELSE [msgs |-> <<Decoded(frame)>>, called |-> FALSE, hr |-> handleRequest(variant, frame)]

challengeBeforeRecord(attack) ==
    <<SentUnchecked("connect.challenge"), Recorded(0, attack)>>

\* wss.on('connection'): record the connection, then send the challenge.
onConnection(attack) ==
    <<Recorded(0, attack), SentUnchecked("connect.challenge")>>

(***************************************************************************)
(* Timers. Node keeps one list per duration, each in creation order, and   *)
(* a queue of the lists by the expiry of their first timer (ties: the list *)
(* created or re-armed first). A timers phase takes the first list whose   *)
(* expiry has passed and runs every timer of that list that is due, then   *)
(* the next list. Time is relative: rem is the time a timer has left, and  *)
(* a timer with more than Horizon left is only known to be far.            *)
(***************************************************************************)
Durations == {"d200", "d1000", "d30000"}

Horizon == CompletedDelay

Timer(cb, run, runId, rem) == [cb |-> cb, run |-> run, runId |-> runId, rem |-> rem]

NoTimers == [d \in Durations |-> << >>]

\* The list of duration d receives a timer; an empty list is created anew.
Insert(w, d, timer) ==
    [w EXCEPT !.timers[d] = Append(@, timer),
              !.listOrder = IF w.timers[d] = << >> THEN Append(@, d) ELSE @]

Without(seq, x) == SelectSeq(seq, LAMBDA y : y # x)

PosIn(seq, x) == CHOOSE i \in 1 .. Len(seq) : seq[i] = x

\* List d is the first of the queue and its expiry has passed.
FirstDue(w, d) ==
    /\ w.timers[d] # << >>
    /\ Head(w.timers[d]).rem <= 0
    /\ \A e \in Durations \ {d} :
          w.timers[e] # << >> =>
             \/ Head(w.timers[e]).rem > Head(w.timers[d]).rem
             \/ /\ Head(w.timers[e]).rem = Head(w.timers[d]).rem
                /\ PosIn(w.listOrder, d) < PosIn(w.listOrder, e)

agentEventUnguarded(t, variant, open, u) ==
    LET u1 == IF variant = "rich" THEN u ELSE u + 1
        runId == IF variant = "rich" THEN t.runId ELSE u1
    IN  [ out |-> <<TimerRan(t), SentEvent(t.cb, t.run, runId)>>,
          u |-> u1, again |-> << >> ]

\* An agent timer's callback. sendEvent sends nothing unless the socket is
\* open; the lean version makes a new run id before it calls sendEvent.
agentEvent(t, variant, open, u) ==
    LET u1 == IF variant = "rich" THEN u ELSE u + 1
        runId == IF variant = "rich" THEN t.runId ELSE u1
    IN  [ out |-> <<TimerRan(t)>> \o
                  (IF open THEN <<SentEvent(t.cb, t.run, runId)>> ELSE << >>),
          u |-> u1, again |-> << >> ]

tickCallbackOnce(t, open, u) ==
    [ out |-> <<TimerRan(t)>> \o (IF open THEN <<SentEvent("tick", 0, 0)>> ELSE << >>),
      u |-> u, again |-> << >> ]

\* The interval's callback: a tick when the socket is open, else
\* clearInterval; an interval still set is started again.
tickCallback(t, open, u) ==
    IF open
    THEN [out |-> <<TimerRan(t), SentEvent("tick", 0, 0)>>, u |-> u,
          again |-> <<[t EXCEPT !.rem = TickUnits]>>]
    ELSE [out |-> <<TimerRan(t)>>, u |-> u, again |-> << >>]

callback(t, variant, open, u) ==
    IF t.cb = "tick" THEN tickCallback(t, open, u) ELSE agentEvent(t, variant, open, u)

\* listOnTimeout: run the timers of one list while its first timer is due.
RECURSIVE drain(_, _, _, _)
drain(list, variant, open, u) ==
    IF list = << >> \/ Head(list).rem > 0
    THEN [left |-> list, out |-> << >>, u |-> u]
    ELSE LET step == callback(Head(list), variant, open, u)
             rest == drain(Tail(list) \o step.again, variant, open, step.u)
         IN  [left |-> rest.left, out |-> step.out \o rest.out, u |-> rest.u]

\* clearInterval(tickInterval)
clearTick(w) ==
    [w EXCEPT !.timers["d30000"] = << >>,
              !.listOrder = Without(@, "d30000")]

\* Time passes by one unit; a far timer stays far or comes within Horizon.
Elapse(t, near) ==
    IF t.rem > Horizon
    THEN (IF near THEN [t EXCEPT !.rem = Horizon] ELSE t)
    ELSE [t EXCEPT !.rem = @ - 1]

Pending(w) == \E d \in Durations : w.timers[d] # << >>

MayWait(w) ==
    \A d \in Durations : \A i \in 1 .. Len(w.timers[d]) : w.timers[d][i].rem > 0 - MaxLate

WsIdle ==
    [ variant |-> "rich", readyState |-> "NONE", ip |-> NA,
      received |-> << >>, trace |-> << >>,
      timers |-> NoTimers, listOrder |-> << >>, uuid |-> 0 ]

\* recordWsMessage for each message of msgs, ids from `id` on.
RECURSIVE recordAll(_, _, _, _, _)
recordAll(s, id, ip, msgs, ok) ==
    IF msgs = << >> THEN s
    ELSE recordAll(recordWsMessage(s, id, [ip |-> ip, message |-> Head(msgs)], ok),
                   id + 1, ip, Tail(msgs), ok)

AttacksOf(id, ip, msgs) ==
    [i \in 1 .. Len(msgs) |-> wsMessageAttack(id + i - 1, [ip |-> ip, message |-> msgs[i]])]

(***************************************************************************)
(* The HTTP gateway (http-server.js).                                      *)
(*                                                                         *)
(* A request is [ip, method, path, body, bodyKind, stream, content]:       *)
(*   path, body  as the store reads them (body: the text of the JSON)      *)
(*   bodyKind    "none" (no body), "object" (a JSON object or array),      *)
(*               "text" (a text/* body), "malformed" (a JSON body that     *)
(*               does not parse) or "oversized" (more than the limit)      *)
(*   stream      the body's `stream` member is truthy                      *)
(*   content     the content of the body's last message: "absent", "str"   *)
(*               or "bad" (a value without a slice method, as a number)    *)
(*   tool, argsPath  the body's `tool` and `args.path` members, NA when    *)
(*               the body has none                                         *)
(***************************************************************************)
MaxRequests == 2      \* requests made to the listener
MaxStreams == 1       \* responses being streamed at the same time

ChunkSize == 5        \* content.slice(index, index + 5)
ContentLens == {30, 31}   \* `Response from ${config.displayName} Gateway.`

HttpRequest(ip, method, path, body, bodyKind, stream, content) ==
    [ ip |-> ip, method |-> method, path |-> path, body |-> body,
      bodyKind |-> bodyKind, stream |-> stream, content |-> content,
      tool |-> NA, argsPath |-> NA ]

\* POST /tools/invoke with the body {"tool": tool, "args": {"path": argsPath}}.
ToolRequest(bodyKind, tool, argsPath) ==
    [ HttpRequest("10.0.0.2", "POST", <<"/tools/invoke">>, <<"hello">>, bodyKind, FALSE, "absent")
        EXCEPT !.tool = tool, !.argsPath = argsPath ]

HttpRequestSamples ==
    { HttpRequest(ip, "GET", <<"/">>, << >>, "none", FALSE, "absent") : ip \in IPs } \cup
    { HttpRequest("10.0.0.1", "GET", <<"/nope">>, << >>, "none", FALSE, "absent"),
      HttpRequest("10.0.0.1", "POST", <<"/">>, << >>, "none", FALSE, "absent"),
      HttpRequest("10.0.0.1", "POST", <<"/V1/CHAT/COMPLETIONS">>, <<"hello">>, "object", FALSE, "str"),
      HttpRequest("10.0.0.1", "POST", <<"/v1/chat/completions">>, <<"IGNORE">>, "object", TRUE, "str"),
      HttpRequest("10.0.0.1", "POST", <<"/v1/chat/completions">>, <<"hello">>, "object", FALSE, "bad"),
      HttpRequest("10.0.0.1", "POST", <<"/v1/chat/completions">>, <<"hello">>, "object", TRUE, "bad"),
      HttpRequest("10.0.0.1", "POST", <<"/v1/chat/completions">>, <<"{bad">>, "malformed", FALSE, "absent"),
      HttpRequest("10.0.0.1", "POST", <<"/nope">>, <<"huge">>, "oversized", FALSE, "absent"),
      HttpRequest("10.0.0.1", "POST", <<"/tools/invoke">>, << >>, "none", FALSE, "absent"),
      HttpRequest("10.0.0.1", "POST", <<"/hooks/wake">>, <<"hello">>, "text", FALSE, "absent"),
      HttpRequest("10.0.0.1", "HEAD", <<"/health">>, << >>, "none", FALSE, "absent"),
      ToolRequest("object", "bash", NA),
      ToolRequest("object", "read_file", "/etc/passwd"),
      ToolRequest("object", "send", NA),
      ToolRequest("object", "nmap", "/tmp/x"),
      ToolRequest("malformed", NA, NA) }

\* express.json and express.text: a body that fails to parse or exceeds the
\* limit is passed to next(err), and the error handler answers.
bodyParsers(req) ==
    CASE req.bodyKind = "malformed" -> [failed |-> TRUE, status |-> 400]
      [] req.bodyKind = "oversized" -> [failed |-> TRUE, status |-> 413]
      [] OTHER -> [failed |-> FALSE, status |-> 0]

\* req.body after the parsers: "default" is what the framework leaves when
\* there was no body to parse.
BodyValue(req, bodyDefault) ==
    IF req.bodyKind = "none" THEN bodyDefault ELSE req.bodyKind

\* The routes, by method and (lower-cased) path.
GetRoutes == {"/", "/v1/models", "/health", "/api/status", "/hooks/status"}

PostRoutes ==
    { "/v1/chat/completions", "/v1/responses", "/tools/invoke",
      "/hooks/wake", "/hooks/agent", "/hooks/notify" }

\* A route of app.get also handles HEAD when no route is defined for HEAD.
Matches(req) ==
    /\ Len(req.path) = 1
    /\ \/ req.method \in {"GET", "HEAD"} /\ toLowerCase(req.path)[1] \in GetRoutes
       \/ req.method = "POST" /\ toLowerCase(req.path)[1] \in PostRoutes

\* A POST handler destructures req.body, which throws when it is undefined;
\* the chat handler calls content?.slice(0, 100).
HandlerThrows(req, bodyDefault) ==
    /\ req.method = "POST"
    /\ \/ BodyValue(req, bodyDefault) = "undefined"
       \/ /\ toLowerCase(req.path) = <<"/v1/chat/completions">>
          /\ req.bodyKind = "object"
          /\ req.content = "bad"

\* What res.json is given, as far as the model follows it: the canned result
\* of /tools/invoke, the 404 of the catch-all, anything else.
JsonBody(shape, tool, path) == [shape |-> shape, tool |-> tool, path |-> path]

NoBody == JsonBody("other", NA, << >>)

\* The switch of POST /tools/invoke: {ok: true, tool, result}.
invokeTool(tool, argsPath) ==
    CASE tool \in {"bash", "shell", "execute"} -> JsonBody("exec", tool, NA)
      [] tool = "web_search" -> JsonBody("search", tool, NA)
      [] tool \in {"message.send", "send"} -> JsonBody("sent", tool, NA)
      [] tool \in {"read_file", "file.read"} -> JsonBody("read", tool, argsPath)
      [] tool \in {"write_file", "file.write"} -> JsonBody("write", tool, argsPath)
      [] OTHER -> JsonBody("completed", tool, NA)

\* The route's handler (or the catch-all): the status answered and the body,
\* or a stream.
route(req, bodyDefault) ==
    IF ~Matches(req)
    THEN [status |-> 404, stream |-> FALSE, body |-> JsonBody("Not Found", NA, req.path)]
    ELSE IF HandlerThrows(req, bodyDefault)
    THEN [status |-> 500, stream |-> FALSE, body |-> NoBody]
    ELSE IF /\ toLowerCase(req.path) = <<"/v1/chat/completions">>
            /\ req.bodyKind = "object"
            /\ req.stream
    THEN [status |-> 200, stream |-> TRUE, body |-> NoBody]
    ELSE IF toLowerCase(req.path) = <<"/tools/invoke">>
    THEN [status |-> 200, stream |-> FALSE, body |-> invokeTool(req.tool, req.argsPath)]
    ELSE [status |-> 200, stream |-> FALSE, body |-> NoBody]

\* What the listener did, in order: "record" (the store was called),
\* "respond" (res.json or the error handler), "write" (res.write of a
\* chunk of `chars` characters of content), "final" (the chunk with
\* finish_reason), "done" (the [DONE] line), "end" (res.end), and "closed"
\* (the client closed the socket of the request).
HttpEntry(op, n, status, chars) ==
    [op |-> op, req |-> n, status |-> status, chars |-> chars, body |-> NoBody]

\* handleStreamingResponse up to its first setTimeout: the initial chunk.
startStream(n) == <<HttpEntry("write", n, 200, 0)>>

\* sendChunk: the next slice of the content, or the final chunk, [DONE] and
\* the end of the response.
sendChunk(n, index, contentLen) ==
    IF index < contentLen
    THEN [ out |-> <<HttpEntry("write", n, 200, Min(ChunkSize, contentLen - index))>>,
           index |-> index + ChunkSize, done |-> FALSE ]
    ELSE [ out |-> <<HttpEntry("final", n, 200, 0), HttpEntry("done", n, 200, 0),
                     HttpEntry("end", n, 200, 0)>>,
           index |-> index, done |-> TRUE ]

HttpIdle ==
    [ bodyDefault |-> "object", contentLen |-> 30,
      requests |-> << >>, log |-> << >>, streams |-> << >> ]

(***************************************************************************)
(* The mDNS responder (mdns-server.js).                                    *)
(*                                                                         *)
(* A datagram is [hdrLen, id, qr, qdcount, body]: the first hdrLen (at     *)
(* most 12) bytes are the DNS header, of which id, qr (the top bit of the  *)
(* flags) and qdcount are read; body is the bytes from offset 12 on, empty *)
(* when the header is short.                                               *)
(***************************************************************************)
MaxDatagrams == 2     \* datagrams received by the responder

HeaderLen == 12       \* let offset = 12
TypePTR == 12         \* DNS_TYPE.PTR

Datagram(hdrLen, id, qr, qdcount, body) ==
    [hdrLen |-> hdrLen, id |-> id, qr |-> qr, qdcount |-> qdcount, body |-> body]

\* Label "a" is <<1, 97>>; the name ends with a zero byte; type and class
\* follow in two bytes each.
DatagramSamples ==
    { Datagram(0, 0, 0, 0, << >>),
      Datagram(11, 7, 0, 1, << >>),
      Datagram(HeaderLen, 7, 0, 1, << >>),
      Datagram(HeaderLen, 7, 1, 1, <<1, 97, 0, 0, TypePTR, 0, 1>>),
      Datagram(HeaderLen, 7, 0, 0, <<1, 97, 0, 0, TypePTR, 0, 1>>),
      Datagram(HeaderLen, 7, 0, 1, <<1, 97, 0, 0, TypePTR, 0, 1>>),
      Datagram(HeaderLen, 8, 0, 2, <<0, 0, 99, 0, 1>>),
      Datagram(HeaderLen, 9, 0, 2, <<1, 97, 0, 0, TypePTR, 0, 1, 1, 98, 0, 0, TypePTR, 0, 1>>),
      Datagram(HeaderLen, 7, 0, 1, <<1, 97, 0, 0, TypePTR, 0>>),
      Datagram(HeaderLen, 7, 0, 1, <<1, 97, 0>>),
      Datagram(HeaderLen, 7, 0, 1, <<1, 97>>),
      Datagram(HeaderLen, 7, 0, 1, <<5, 97, 0, 0, TypePTR, 0, 1>>) }

MsgLength(msg) == msg.hdrLen + Len(msg.body)

\* msg.readUInt16BE(offset) and msg.readUInt8(offset) throw past the end.
CanRead16(msg, offset) == offset + 2 <= MsgLength(msg)

ByteAt(msg, offset) == msg.body[offset - HeaderLen + 1]

Read16(msg, offset) == ByteAt(msg, offset) * 256 + ByteAt(msg, offset + 1)

\* msg.slice(start, end): the bytes that exist in the range.
BodySlice(msg, start, end) ==
    jsSlice(msg.body, Max(start - HeaderLen, 0), Max(Min(end, MsgLength(msg)) - HeaderLen, 0))

\* The loop over the labels of the question name, from `offset`: the labels
\* read and the offset after the name.
RECURSIVE readName(_, _, _)
readName(msg, offset, labels) ==
    IF offset < MsgLength(msg)
    THEN LET len == ByteAt(msg, offset)
         IN  IF len = 0 THEN [labels |-> labels, offset |-> offset + 1]
             ELSE readName(msg, offset + len + 1,
                           Append(labels, BodySlice(msg, offset + 1, offset + 1 + len)))
    ELSE [labels |-> labels, offset |-> offset]

NoQuery ==
    [ok |-> FALSE, id |-> 0, name |-> << >>, qtype |-> 0, qclass |-> 0,
     questionData |-> << >>, qdcount |-> 0]

parseQueryIgnoringQR(msg) ==
    IF msg.hdrLen < 6 THEN NoQuery
    ELSE IF msg.qdcount = 0 THEN NoQuery
    ELSE IF msg.hdrLen < HeaderLen THEN NoQuery
    ELSE LET walked == readName(msg, HeaderLen, << >>)
         IN  IF ~CanRead16(msg, walked.offset) \/ ~CanRead16(msg, walked.offset + 2)
             THEN NoQuery
             ELSE [ ok |-> TRUE, id |-> msg.id, name |-> walked.labels,
                    qtype |-> Read16(msg, walked.offset),
                    qclass |-> Read16(msg, walked.offset + 2),
                    questionData |-> BodySlice(msg, HeaderLen, walked.offset + 4),
                    qdcount |-> msg.qdcount ]

\* parseQuery: NoQuery stands for null.
parseQuery(msg) ==
    IF msg.hdrLen < 6 THEN NoQuery
    ELSE IF msg.qr # 0 \/ msg.qdcount = 0 THEN NoQuery
    ELSE IF msg.hdrLen < HeaderLen THEN NoQuery
    ELSE LET walked == readName(msg, HeaderLen, << >>)
         IN  IF ~CanRead16(msg, walked.offset) \/ ~CanRead16(msg, walked.offset + 2)
             THEN NoQuery
             ELSE [ ok |-> TRUE, id |-> msg.id, name |-> walked.labels,
                    qtype |-> Read16(msg, walked.offset),
                    qclass |-> Read16(msg, walked.offset + 2),
                    questionData |-> BodySlice(msg, HeaderLen, walked.offset + 4),
                    qdcount |-> msg.qdcount ]

\* buildResponse: the header and the echoed question of the reply.
buildResponse(query, ipv6) ==
    [ id |-> query.id, qr |-> 1, aa |-> 1, qdcount |-> 1, ancount |-> 1,
      nscount |-> 0, arcount |-> IF ipv6 THEN 6 ELSE 5,
      question |-> query.questionData ]

\* server.on('message'): the replies sent for a datagram. The handler does
\* not call the store.
onDatagram(msg, rinfo, ipv6) ==
    LET query == parseQuery(msg)
    IN  IF query.ok
        THEN <<[to |-> rinfo, reply |-> buildResponse(query, ipv6)]>>
        ELSE << >>

MdnsIdle == [ipv6 |-> FALSE, received |-> << >>, sent |-> << >>]

(***************************************************************************)
(* The whole reply of buildResponse, in both versions of the responder     *)
(* (mdns-server.js with the NSEC records, and the simple one).  Names and  *)
(* texts are followed by their lengths; the host name is one label.        *)
(***************************************************************************)
PortDigits == 5       \* the digits of config.honeypot.port, 18789 by default

\* The lengths of displayName, serviceName and mdnsServiceType.
ServiceConfigs ==
    { [displayName |-> 7, serviceName |-> 7, mdnsServiceType |-> 10],
      [displayName |-> 8, serviceName |-> 8, mdnsServiceType |-> 11] }

\* MDNS_HOSTNAME || 'workstation': lengths of the host name.
HostLens == {1, 11, 63, 232}

MdnsVariants == {"nsec", "simple"}

RECURSIVE SumSeq(_)
SumSeq(seq) == IF seq = << >> THEN 0 ELSE Head(seq) + SumSeq(Tail(seq))

\* len.writeUInt8(n) throws a RangeError above 255.
WriteUInt8Throws(lens) == \E i \in 1 .. Len(lens) : lens[i] > 255

\* encodeName: one length byte before each label, and a zero byte.
encodeName(labels) == SumSeq(labels) + Len(labels) + 1

\* encodeTxtRecord: one length byte before each string.
encodeTxtRecord(strings) == SumSeq(strings) + Len(strings)

\* `_${config.mdnsServiceType}._tcp.local`
serviceTypeLabels(svc) == <<1 + svc.mdnsServiceType, 4, 5>>

\* `${hostname} (${config.displayName})`
instanceLabel(host, svc) == host + 3 + svc.displayName

serviceNameLabels(variant, host, svc) ==
    <<IF variant = "nsec" THEN instanceLabel(host, svc) ELSE host>>
        \o serviceTypeLabels(svc)

\* `${hostname}.local`
hostLocalLabels(host) == <<host, 5>>

buildTxtRecords(variant, host, svc) ==
    LET common == << 12, 12 + PortDigits, 8 + host + 6,
                     12 + (IF variant = "nsec" THEN host ELSE instanceLabel(host, svc)),
                     48 + svc.serviceName + 14, 10, 17 >>
    IN  IF variant = "nsec" THEN common
        ELSE Append(common, 5 + instanceLabel(host, svc))

\* Buffer.from([(n >> 8) & 0xff, n & 0xff]) read back as a 16-bit number.
TwoBytes(n) == (((n \div 256) % 256) * 256) + (n % 256)

\* Buffer.from([0, n]): each element is taken modulo 256.
ZeroAndByte(n) == n % 256

\* A resource record: its type, the RDLENGTH written, the length of the
\* data that follows.
ResourceRecord(type, rdlength, rdata) == [type |-> type, rdlength |-> rdlength, rdata |-> rdata]

NoReply ==
    [ threw |-> TRUE, qdcount |-> 0, ancount |-> 0, nscount |-> 0, arcount |-> 0,
      questions |-> << >>, answers |-> << >>, authority |-> << >>, additional |-> << >> ]

\* buildResponse of the simple responder.
buildSimpleResponse(host, svc, query) ==
    LET serviceName == serviceNameLabels("simple", host, svc)
        ptrData == encodeName(serviceName)
        txtData == encodeTxtRecord(buildTxtRecords("simple", host, svc))
        srvData == 6 + encodeName(hostLocalLabels(host))
    IN  [ threw |-> FALSE, qdcount |-> 0, ancount |-> 1, nscount |-> 0, arcount |-> 2,
          questions |-> << >>,
          answers |-> <<ResourceRecord("PTR", ZeroAndByte(ptrData), ptrData)>>,
          authority |-> << >>,
          additional |-> << ResourceRecord("TXT", TwoBytes(txtData), txtData),
                            ResourceRecord("SRV", TwoBytes(srvData), srvData) >> ]

\* buildResponse with the NSEC records: the header of buildResponse above
\* and the sections concatenated after it.
buildNsecResponse(host, svc, query, ipv6) ==
    LET header == buildResponse(query, ipv6)
        serviceName == serviceNameLabels("nsec", host, svc)
        hostLocal == hostLocalLabels(host)
        ptrData == encodeName(serviceName)
        txtData == encodeTxtRecord(buildTxtRecords("nsec", host, svc))
        srvData == 6 + encodeName(hostLocal)
        nsecServiceData == encodeName(serviceName) + 7
        nsecHostData == encodeName(hostLocal) + (IF ipv6 THEN 6 ELSE 3)
    IN  [ threw |-> FALSE, qdcount |-> header.qdcount, ancount |-> header.ancount,
          nscount |-> header.nscount, arcount |-> header.arcount,
          questions |-> <<header.question>>,
          answers |-> <<ResourceRecord("PTR", TwoBytes(ptrData), ptrData)>>,
          authority |-> << >>,
          additional |->
              << ResourceRecord("TXT", TwoBytes(txtData), txtData),
                 ResourceRecord("SRV", TwoBytes(srvData), srvData),
                 ResourceRecord("A", 4, 4) >>
              \o (IF ipv6 THEN <<ResourceRecord("AAAA", 16, 16)>> ELSE << >>)
              \o << ResourceRecord("NSEC", TwoBytes(nsecServiceData), nsecServiceData),
                    ResourceRecord("NSEC", TwoBytes(nsecHostData), nsecHostData) >> ]

\* The reply of either responder; NoReply when encodeName or
\* encodeTxtRecord throws.
buildReply(variant, host, svc, query, ipv6) ==
    IF \/ WriteUInt8Throws(serviceNameLabels(variant, host, svc))
       \/ WriteUInt8Throws(hostLocalLabels(host))
       \/ WriteUInt8Throws(buildTxtRecords(variant, host, svc))
    THEN NoReply
    ELSE IF variant = "nsec" THEN buildNsecResponse(host, svc, query, ipv6)
    ELSE buildSimpleResponse(host, svc, query)

ReplyIdle ==
    [ phase |-> "idle", variant |-> "nsec", host |-> 11,
      svc |-> [displayName |-> 7, serviceName |-> 7, mdnsServiceType |-> 10],
      ipv6 |-> FALSE, query |-> NoQuery, reply |-> NoReply ]

\* probe: one call of handleRequest on a request of the caller's choosing.
ProbeIdle ==
    [ phase |-> "idle", variant |-> "rich", frame |-> ReqFrame("health", NoParams),
      hr |-> [threw |-> FALSE, res |-> NoResponse, agent |-> FALSE] ]

(***************************************************************************)
(* The record operations statement by statement, for runs in which the     *)
(* process can stop between two statements.                                *)
(***************************************************************************)
MaxOps == 2     \* record operations that reach the log in a run of DurableSpec

RecordCall(kind, data) == [kind |-> kind, data |-> data]

RecordCalls ==
    { RecordCall("http", HttpData("10.0.0.1", "POST", <<"/v1/chat/completions">>, <<"IGNORE", "hello">>)),
      RecordCall("http", HttpData("10.0.0.2", "GET", <<"/">>, << >>)),
      RecordCall("ws_connection", [ip |-> "10.0.0.1"]),
      RecordCall("ws_message", [ip |-> "10.0.0.2", message |-> WsMessage("obj", "CONNECT", 0)]),
      RecordCall("mdns_query", [ip |-> "10.0.0.1", queryType |-> TypePTR]) }

\* The attack object a record operation builds first.
attackOf(id, call) ==
    CASE call.kind = "http" -> httpAttack(id, call.data)
      [] call.kind = "ws_connection" -> wsConnectionAttack(id, call.data)
      [] call.kind = "ws_message" -> wsMessageAttack(id, call.data)
      [] call.kind = "mdns_query" -> mdnsAttack(id, call.data)

\* The statements between _addAttack and _saveStats: the counters of the kind.
countersAfter(st, call, attack) ==
    CASE call.kind = "http" ->
            incrementTypeStat(
                incrementEndpointStat(
                    [st EXCEPT !.totalHttpRequests = @ + 1, !.uniqueIps = @ \cup {call.data.ip}],
                    call.data.path),
                attack.category)
      [] call.kind = "ws_connection" ->
            incrementTypeStat(
                [st EXCEPT !.totalWsConnections = @ + 1, !.uniqueIps = @ \cup {call.data.ip}],
                "ws_connect")
      [] call.kind = "ws_message" ->
            incrementTypeStat([st EXCEPT !.totalWsMessages = @ + 1], attack.category)
      [] call.kind = "mdns_query" ->
            incrementTypeStat(
                [st EXCEPT !.totalMdnsQueries = @ + 1, !.uniqueIps = @ \cup {call.data.ip}],
                "mdns_discovery")

\* The whole operation, as the caller sees it when nothing interrupts it.
recordWhole(s, id, call, ok) ==
    CASE call.kind = "http" -> recordHttpRequest(s, id, call.data, ok)
      [] call.kind = "ws_connection" -> recordWsConnection(s, id, call.data, ok)
      [] call.kind = "ws_message" -> recordWsMessage(s, id, call.data, ok)
      [] call.kind = "mdns_query" -> recordMdnsQuery(s, id, call.data, ok)

\* The statements of a record operation that change the store, in the order
\* of the code: push and append are in _addAttack, which runs first.
recordStepsSaveBeforeAppend == <<"count", "save", "push", "append">>

recordSteps == <<"push", "append", "count", "save">>

tryAppendToLogUncaught(s, attack, ok) ==
    [store |-> appendToLog(s, attack, ok), threw |-> ~ok]

\* _appendToLog as its caller sees it: the catch block lets nothing out.
tryAppendToLog(s, attack, ok) ==
    [store |-> appendToLog(s, attack, ok), threw |-> FALSE]

\* _saveStats as its caller sees it: the catch block lets nothing out.
trySaveStats(s, ok) ==
    [store |-> saveStats(s, ok), threw |-> FALSE]

\* The end of _addAttack: attacks.slice(-maxInMemory) when over capacity.
trim(s) ==
    IF Len(s.attacks) > s.maxInMemory
    THEN [s EXCEPT !.attacks = jsSliceFrom(@, 0 - s.maxInMemory)]
    ELSE s

\* allAttacks.sort((a, b) => new Date(b.timestamp) - new Date(a.timestamp)):
\* newest first; the sort is stable, so records of one millisecond keep the
\* order they had.
sortNewestFirst(arr) ==
    LET before(j, i) == \/ arr[j].timestamp > arr[i].timestamp
                        \/ arr[j].timestamp = arr[i].timestamp /\ j < i
        rank(i) == Cardinality({j \in 1 .. Len(arr) : before(j, i)}) + 1
    IN  [k \in 1 .. Len(arr) |-> arr[CHOOSE i \in 1 .. Len(arr) : rank(i) = k]]

\* _loadRecentAttacks on the lines of the log: sorted newest first,
\* slice(0, maxInMemory), reversed.
loadRecentAttacks(lines, cap) ==
    jsReverse(jsSlice(sortNewestFirst(lines), 0, cap))

\* new AttackStore() on the data directory the last process left: the stats
\* of stats.json if it exists, and the window read back from the log.
loadExistingData(s) ==
    [ attacks |-> loadRecentAttacks(s.logFile, s.maxInMemory),
      stats |-> IF s.statsFile.exists THEN s.statsFile.data ELSE EmptyStats,
      maxInMemory |-> s.maxInMemory,
      logFile |-> s.logFile,
      statsFile |-> s.statsFile ]

\* The record operation in progress: pc is the index in recordSteps of the
\* next statement, 0 when no operation is in progress.
NoCall == RecordCall("none", [ip |-> NA])

DurableIdle ==
    [ pc |-> 0, call |-> NoCall, attack |-> Attack(0, "none", NA, NA), id |-> 0,
      before |-> EmptyStats, whole |-> [written |-> NewStore(0), failed |-> NewStore(0)],
      appendOk |-> FALSE, saveOk |-> FALSE,
      ended |-> FALSE, threw |-> FALSE, restarted |-> FALSE ]
(***************************************************************************)
(* Startup (src/index.js main, honeypot/index.js startHoneypot).           *)
(*                                                                         *)
(* The environment decides which ports can be bound.  A promise is         *)
(* "pending", "resolved" or "rejected"; a listener is "none", "listening"  *)
(* or "failed".                                                            *)
(***************************************************************************)
BindOutcomes == {"ok", "EADDRINUSE"}

\* The command line, the configuration and the state of the ports.
\* listenCallsBack: app.listen of the installed Express hands a bind error
\* to its callback (Express 5) instead of leaving it to the 'error' event.
StartEnvs ==
    [ honeypotOnly : BOOLEAN, adminOnly : BOOLEAN,
      mdnsEnabled : BOOLEAN, mdnsBind : BindOutcomes \cup {"EACCES"},
      uiEnabled : BOOLEAN, uiBind : BindOutcomes, listenCallsBack : BOOLEAN,
      gatewayBind : BindOutcomes, adminBind : BindOutcomes ]

Settled(promise, listener, logged) ==
    [promise |-> promise, listener |-> listener, logged |-> logged]

startMdnsServerRejectingInUse(env) ==
    IF ~env.mdnsEnabled THEN Settled("resolved", "none", {"mdns disabled"})
    ELSE IF env.mdnsBind = "ok" THEN Settled("resolved", "listening", {"mdns listening"})
    ELSE Settled("rejected", "failed", {"mdns error"})

\* startMdnsServer: resolve(null) when disabled and on EADDRINUSE, reject on
\* any other error of the socket.
startMdnsServer(env) ==
    IF ~env.mdnsEnabled THEN Settled("resolved", "none", {"mdns disabled"})
    ELSE IF env.mdnsBind = "ok" THEN Settled("resolved", "listening", {"mdns listening"})
    ELSE IF env.mdnsBind = "EADDRINUSE"
         THEN Settled("resolved", "failed", {"mdns error", "mdns port in use"})
    ELSE Settled("rejected", "failed", {"mdns error"})

\* app.listen(port, host, callback) with server.on('error', reject) after it:
\* a callback that receives the error resolves the promise first.
appListen(bind, listenCallsBack, started) ==
    IF bind = "ok" THEN Settled("resolved", "listening", {started})
    ELSE IF listenCallsBack THEN Settled("resolved", "failed", {started})
    ELSE Settled("rejected", "failed", {})

startUiServer(env) ==
    IF ~env.uiEnabled THEN Settled("resolved", "none", {"ui disabled"})
    ELSE appListen(env.uiBind, env.listenCallsBack, "ui started")

startAdminServer(env) == appListen(env.adminBind, env.listenCallsBack, "admin started")

\* httpServer.listen with httpServer.on('error', reject) after it.  The
\* WebSocketServer constructed on httpServer has put its own 'error'
\* listener on it before: it emits 'error' on the WebSocketServer, which has
\* no 'error' listener, so the emit throws and reject is never called.
listenGateway(env) ==
    IF env.gatewayBind = "ok" THEN Settled("resolved", "listening", {"honeypot started"})
    ELSE Settled("thrown", "failed", {})

StartIdle(env) ==
    [ env |-> env, pc |-> "main",
      mdns |-> "none", ui |-> "none", gateway |-> "none", admin |-> "none",
      honeypot |-> "none", exit |-> -1, log |-> {} ]
(***************************************************************************)
(* The object getStats returns.  Its numbers are copies; attacksByType and *)
(* attacksByEndpoint are the objects of this.stats themselves, which the   *)
(* record operations update in place.                                      *)
(***************************************************************************)
Ref(name) == [ref |-> name]

\* The object as returned: the maps are references into this.stats.
getStatsObject(s) ==
    [getStats(s) EXCEPT !.attacksByType = Ref("stats.attacksByType"),
                        !.attacksByEndpoint = Ref("stats.attacksByEndpoint")]

\* What the holder of the object reads in it while the store is s.
readStatsObject(obj, s) ==
    [obj EXCEPT !.attacksByType = s.stats.attacksByType,
                !.attacksByEndpoint = s.stats.attacksByEndpoint]

SnapshotIdle == [taken |-> FALSE, object |-> getStatsObject(NewStore(0)),
                 atCall |-> getStats(NewStore(0))]
(***************************************************************************)
(* The admin server (admin/server.js).  A string of the Authorization      *)
(* header is a sequence of tokens: a name, a secret, a filler, or ":".     *)
(* The text after "Basic " is base64: the bytes it encodes, and whether    *)
(* white space is mixed into it (Buffer.from(..., 'base64') skips it).     *)
(***************************************************************************)
MaxAdminRequests == 2   \* requests made to the admin server
MaxPolls == 2           \* runs of a stream's timer whose stats event is followed

AdminUsername == <<"admin">>          \* ADMIN_USERNAME || 'admin'
AdminPassword == <<"admin-secret-2024">>   \* ADMIN_PASSWORD || 'admin-secret-2024'

Base64(bytes, spaced) == [bytes |-> bytes, spaced |-> spaced]

\* Buffer.from(text, 'base64').toString('utf-8')
base64Decode(text) == text.bytes

\* String.prototype.split(':'): the pieces between the colons.
RECURSIVE splitColon(_)
splitColon(str) ==
    IF \A i \in 1 .. Len(str) : str[i] # ":"
    THEN <<str>>
    ELSE LET at == CHOOSE i \in 1 .. Len(str) :
                       str[i] = ":" /\ \A j \in 1 .. i - 1 : str[j] # ":"
         IN  <<SubSeq(str, 1, at - 1)>> \o splitColon(SubSeq(str, at + 1, Len(str)))

\* const [username, password] = parts: a missing element is undefined,
\* which is no string.
Undefined == <<NA>>

ElementOf(parts, i) == IF i <= Len(parts) THEN parts[i] ELSE Undefined

AuthHeader(prefix, text) == [prefix |-> prefix, text |-> text]

NoHeader == AuthHeader(NA, Base64(<< >>, FALSE))

AuthHeaderSamples ==
    { NoHeader,
      AuthHeader("basic ", Base64(AdminUsername \o <<":">> \o AdminPassword, FALSE)),
      AuthHeader("Bearer ", Base64(AdminUsername \o <<":">> \o AdminPassword, FALSE)),
      AuthHeader("Basic ", Base64(AdminUsername \o <<":">> \o AdminPassword, TRUE)) } \cup
    { AuthHeader("Basic ", Base64(c, FALSE)) :
        c \in { AdminUsername \o <<":">> \o AdminPassword,
                AdminUsername \o <<":">> \o AdminPassword \o <<":", "x">>,
                AdminUsername \o <<":", "x">>,
                <<"x", ":">> \o AdminPassword,
                AdminUsername \o AdminPassword,
                << >> } }

\* basicAuth: "next", or the text of the 401.
basicAuth(header) ==
    IF header.prefix = NA \/ header.prefix # "Basic "
    THEN "Authentication required"
    ELSE LET parts == splitColon(base64Decode(header.text))
         IN  IF /\ ElementOf(parts, 1) = AdminUsername
                /\ ElementOf(parts, 2) = AdminPassword
             THEN "next"
             ELSE "Invalid credentials"

AdminRequest(path, header, type, limit, offset) ==
    [path |-> path, header |-> header, type |-> type, limit |-> limit, offset |-> offset]

AdminPaths ==
    {"/index.html", "/api/stats", "/api/attacks", "/api/ips", "/api/config",
     "/api/stream", "/api/nothing"}

AdminRequestSamples ==
    { AdminRequest(p, h, NA, 100, 0) : p \in AdminPaths, h \in AuthHeaderSamples } \cup
    { AdminRequest("/api/attacks", AuthHeader("Basic ", Base64(AdminUsername \o <<":">> \o AdminPassword, FALSE)),
                   t, l, 0) : t \in {"http", "scanner"}, l \in {0, 1} }

AdminResponse(status, kind, data) == [status |-> status, kind |-> kind, data |-> data]

\* The routes behind basicAuth, for a GET request.
adminRoute(s, req) ==
    CASE req.path = "/index.html" -> AdminResponse(200, "static", NA)
      [] req.path = "/api/stats" -> AdminResponse(200, "stats", getStats(s))
      [] req.path = "/api/attacks" ->
            AdminResponse(200, "attacks",
                IF req.type # NA THEN getAttacksByType(s, req.type, req.limit)
                ELSE getRecentAttacks(s, req.limit, req.offset))
      [] req.path = "/api/ips" -> AdminResponse(200, "ips", s.stats.uniqueIps)
      [] req.path = "/api/config" -> AdminResponse(200, "config", NA)
      [] req.path = "/api/stream" -> AdminResponse(200, "stream", getStats(s))
      [] OTHER -> AdminResponse(404, "none", NA)

adminApp(s, req) ==
    LET auth == basicAuth(req.header)
    IN  IF auth = "next" THEN adminRoute(s, req) ELSE AdminResponse(401, auth, NA)

\* An SSE stream: lastCount of its closure, and what was written to it.
StreamEvent(type, data) == [type |-> type, data |-> data]

\* since: the records made before the stream was opened; closedWith: the
\* events written when the client went away.
NoStream ==
    [ state |-> "none", lastCount |-> 0, written |-> << >>, polls |-> 0,
      since |-> 0, closedWith |-> 0 ]

openStream(s, made) ==
    [ state |-> "open", lastCount |-> Len(s.attacks),
      written |-> <<StreamEvent("stats", getStats(s))>>, polls |-> 0,
      since |-> made, closedWith |-> 0 ]

\* The setInterval callback: the attacks past lastCount, then (when the
\* clock is in the first second of a five-second period) the stats.
poll(stream, s, statsDue) ==
    LET currentCount == Len(s.attacks)
        newAttacks == IF currentCount > stream.lastCount
                      THEN jsSliceFrom(s.attacks, stream.lastCount) ELSE << >>
        events == [i \in 1 .. Len(newAttacks) |-> StreamEvent("attack", newAttacks[i])]
        stats == IF statsDue THEN <<StreamEvent("stats", getStats(s))>> ELSE << >>
    IN  [stream EXCEPT !.lastCount = IF currentCount > @ THEN currentCount ELSE @,
                       !.written = @ \o events \o stats,
                       !.polls = Min(@ + 1, MaxPolls)]

AdminIdle == [requests |-> << >>, log |-> << >>, stream |-> NoStream]

(***************************************************************************)
(* What the requests of a connection read and could write: the config      *)
(* object (config/index.js).  The lists of sessions, nodes and pairing     *)
(* requests are literals of the handlers.                                  *)
(***************************************************************************)
MaxCalls == 3         \* requests made in a run of EffectSpec

ServiceNames == {"moltbot", "clawdbot", "openclaw"}

GatewayConfig(name) ==
    [serviceName |-> name, version |-> "version", protocol |-> "protocol"]

\* The payload of the cases that answer from the server's state.
payloadDetail(cfg, method) ==
    CASE method = "config.get" ->
            [ kind |-> "config", list |-> << >>,
              config |-> [ version |-> cfg.version, protocol |-> cfg.protocol,
                           serviceName |-> cfg.serviceName, features |-> "all" ] ]
      [] method = "sessions.list" -> [kind |-> "sessions", list |-> << >>, config |-> NA]
      [] method = "node.list" -> [kind |-> "nodes", list |-> << >>, config |-> NA]
      [] method = "node.pair.list" -> [kind |-> "requests", list |-> << >>, config |-> NA]
      [] method \in {"config.set", "config.patch", "sessions.delete", "sessions.reset",
                     "sessions.compact", "node.pair.approve"} ->
            [kind |-> "ok", list |-> << >>, config |-> NA]
      [] OTHER -> [kind |-> PayloadOf(method), list |-> << >>, config |-> NA]

NoDetail == [kind |-> "null", list |-> << >>, config |-> NA]

\* A handleRequest whose config.set case writes the value into the config.
handleRequestStoringConfig(variant, cfg, message) ==
    LET hr == handleRequest(variant, message)
    IN  [ config |-> IF hr.res.ok /\ message.method = "config.set"
                     THEN [cfg EXCEPT !.serviceName = message.params.value] ELSE cfg,
          hr |-> hr,
          detail |-> IF hr.res.ok THEN payloadDetail(cfg, message.method) ELSE NoDetail ]

\* handleRequest with the config object it reads: the object it leaves, its
\* result, and the payload it sent.
handleRequestOn(variant, cfg, message) ==
    LET hr == handleRequest(variant, message)
    IN  [ config |-> cfg,
          hr |-> hr,
          detail |-> IF hr.res.ok THEN payloadDetail(cfg, message.method) ELSE NoDetail ]

\* params of config.set: { key, value }.
KeyValue(key, value) == [key |-> key, value |-> value]

ReadMethods == {"config.get", "sessions.list", "node.list", "node.pair.list"}

WriteMethods ==
    {"config.set", "config.patch", "sessions.delete", "sessions.reset",
     "sessions.compact", "node.pair.approve"}

EffectIdle(name) ==
    [variant |-> "rich", initial |-> GatewayConfig(name), config |-> GatewayConfig(name),
     calls |-> << >>]

(***************************************************************************)
(* Spec: the record operations of the store, called in any order.          *)
(***************************************************************************)
StoreInit(cap) ==
    /\ store = NewStore(cap)
    /\ diskFaulty \in BOOLEAN
    /\ appended = << >>
    /\ ws = WsIdle
    /\ http = HttpIdle
    /\ mdns = MdnsIdle
    /\ probe = ProbeIdle

Init == \E cap \in 0 .. MaxCap : StoreInit(cap)

RecordHttpRequest ==
    /\ Len(appended) < MaxEvents
    /\ \E data \in HttpSamples :
          /\ store' = recordHttpRequest(store, NextId, data, ~diskFaulty)
          /\ appended' = Append(appended, httpAttack(NextId, data))
    /\ UNCHANGED <<diskFaulty, ws, http, mdns, probe>>

RecordWsConnection ==
    /\ Len(appended) < MaxEvents
    /\ \E ip \in IPs :
          /\ store' = recordWsConnection(store, NextId, [ip |-> ip], ~diskFaulty)
          /\ appended' = Append(appended, wsConnectionAttack(NextId, [ip |-> ip]))
    /\ UNCHANGED <<diskFaulty, ws, http, mdns, probe>>

RecordWsMessage ==
    /\ Len(appended) < MaxEvents
    /\ \E ip \in IPs, message \in WsMessageSamples :
          LET data == [ip |-> ip, message |-> message]
          IN  /\ store' = recordWsMessage(store, NextId, data, ~diskFaulty)
              /\ appended' = Append(appended, wsMessageAttack(NextId, data))
    /\ UNCHANGED <<diskFaulty, ws, http, mdns, probe>>

RecordMdnsQuery ==
    /\ Len(appended) < MaxEvents
    /\ \E ip \in IPs, qtype \in MdnsTypes :
          LET data == [ip |-> ip, queryType |-> qtype]
          IN  /\ store' = recordMdnsQuery(store, NextId, data, ~diskFaulty)
              /\ appended' = Append(appended, mdnsAttack(NextId, data))
    /\ UNCHANGED <<diskFaulty, ws, http, mdns, probe>>

Next ==
    \/ RecordHttpRequest
    \/ RecordWsConnection
    \/ RecordWsMessage
    \/ RecordMdnsQuery

Spec == Init /\ [][Next]_vars

(***************************************************************************)
(* SnapshotSpec: the record operations of Spec, and one call of getStats   *)
(* whose result the caller keeps.  Here `probe` is the object returned and *)
(* what it held when it was returned.                                      *)
(***************************************************************************)
SnapshotInit ==
    /\ \E cap \in 0 .. MaxCap : store = NewStore(cap)
    /\ diskFaulty = FALSE
    /\ appended = << >>
    /\ ws = WsIdle
    /\ http = HttpIdle
    /\ mdns = MdnsIdle
    /\ probe = SnapshotIdle

GetStats ==
    /\ ~probe.taken
    /\ probe' = [taken |-> TRUE, object |-> getStatsObject(store), atCall |-> getStats(store)]
    /\ UNCHANGED <<store, diskFaulty, appended, ws, http, mdns>>

SnapshotNext ==
    \/ RecordHttpRequest
    \/ RecordWsConnection
    \/ RecordWsMessage
    \/ RecordMdnsQuery
    \/ GetStats

SnapshotSpec == SnapshotInit /\ [][SnapshotNext]_vars

(***************************************************************************)
(* CategorySpec: one HTTP request of any sampled path, body and method is  *)
(* recorded by a fresh store.                                              *)
(***************************************************************************)
CategoryInit ==
    /\ store = NewStore(MaxCap)
    /\ diskFaulty = FALSE
    /\ appended = << >>
    /\ ws = WsIdle
    /\ http = HttpIdle
    /\ mdns = MdnsIdle
    /\ probe = ProbeIdle

Categorize ==
    /\ appended = << >>
    /\ \E ip \in {"10.0.0.1"}, method \in Methods, path \in PathSamples, body \in BodySamples :
          LET data == HttpData(ip, method, path, body)
          IN  /\ store' = recordHttpRequest(store, NextId, data, ~diskFaulty)
              /\ appended' = Append(appended, httpAttack(NextId, data))
    /\ UNCHANGED <<diskFaulty, ws, http, mdns, probe>>

CategoryNext == Categorize

CategorySpec == CategoryInit /\ [][CategoryNext]_vars

(***************************************************************************)
(* WsSpec: one connection to the gateway, from the connection event to     *)
(* the close event, with the timers the handlers set.                      *)
(***************************************************************************)
Variants == {"rich", "lean"}

WsInit ==
    /\ store = NewStore(DefaultCap)
    /\ diskFaulty = FALSE
    /\ appended = << >>
    /\ \E v \in Variants : ws = [WsIdle EXCEPT !.variant = v]
    /\ http = HttpIdle
    /\ mdns = MdnsIdle
    /\ probe = ProbeIdle

\* wss.on('connection'), for a client at one of `ips`.
AcceptFrom(ips) ==
    /\ ws.readyState = "NONE"
    /\ \E ip \in ips :
          LET attack == wsConnectionAttack(NextId, [ip |-> ip])
              opened == [ws EXCEPT !.readyState = "OPEN", !.ip = ip,
                                   !.trace = Stamp(onConnection(attack), "OPEN")]
          IN  /\ store' = recordWsConnection(store, NextId, [ip |-> ip], ~diskFaulty)
              /\ appended' = Append(appended, attack)
              /\ ws' = Insert(opened, "d30000", Timer("tick", 0, 0, TickUnits))
    /\ UNCHANGED <<diskFaulty, http, mdns, probe>>

\* wss.on('connection')
Accept == AcceptFrom(IPs)

\* The two timers of an agent run.
setAgentTimers(w, nf, runId) ==
    Insert(Insert(w, "d200", Timer("agent.started", nf, runId, StartedDelay)),
           "d1000", Timer("agent.completed", nf, runId, CompletedDelay))

\* ws.on('message'), for a frame of `samples`.
OnMessageFrom(samples) ==
    /\ ws.readyState = "OPEN"
    /\ Len(ws.received) < MaxFrames
    /\ \E sample \in samples :
          LET nf == Len(ws.received) + 1
              frame == [sample EXCEPT !.id = nf]
              r == onMessage(ws.variant, frame)
              attacks == AttacksOf(NextId, ws.ip, r.msgs)
              records == [i \in 1 .. Len(attacks) |-> Recorded(nf, attacks[i])]
              first == <<records[1]>>
              agent == r.called /\ r.hr.agent
              res == [SentRes(nf, frame.id, r.hr.res) EXCEPT
                          !.runId = IF agent THEN ws.uuid + 1 ELSE 0]
              after == IF r.called THEN <<res>> ELSE SubSeq(records, 2, Len(records))
              heard == [ws EXCEPT !.received = Append(@, frame),
                                  !.trace = @ \o Stamp(first \o after, ws.readyState),
                                  !.uuid = IF agent THEN @ + 1 ELSE @]
          IN  /\ store' = recordAll(store, NextId, ws.ip, r.msgs, ~diskFaulty)
              /\ appended' = appended \o attacks
              /\ ws' = IF agent THEN setAgentTimers(heard, nf, ws.uuid + 1) ELSE heard
    /\ UNCHANGED <<diskFaulty, http, mdns, probe>>

\* The ticks sent so far.
Ticks(w) == Cardinality({i \in 1 .. Len(w.trace) : w.trace[i].event = "tick"})

\* ws.on('message')
OnMessage == OnMessageFrom(FrameSamples)

\* Time passes by one unit while no timers phase runs; with `near`, the
\* next tick of the interval comes within Horizon.
Advance(near) ==
    /\ Pending(ws)
    /\ MayWait(ws)
    /\ near => Ticks(ws) < MaxTicks
    /\ ws' = [ws EXCEPT !.timers =
                 [d \in Durations |->
                     [i \in 1 .. Len(ws.timers[d]) |-> Elapse(ws.timers[d][i], near)]]]
    /\ UNCHANGED <<store, diskFaulty, appended, http, mdns, probe>>

AdvanceTime == \E near \in BOOLEAN : Advance(near)

\* processTimers reaches list d: listOnTimeout runs its due timers.
RunTimerList(d) ==
    /\ FirstDue(ws, d)
    /\ LET ran == drain(ws.timers[d], ws.variant, ws.readyState = "OPEN", ws.uuid)
           order == IF ran.left = << >> THEN Without(ws.listOrder, d)
                    ELSE Append(Without(ws.listOrder, d), d)
       IN  ws' = [ws EXCEPT !.timers[d] = ran.left,
                            !.listOrder = order,
                            !.trace = @ \o Stamp(ran.out, ws.readyState),
                            !.uuid = ran.u]
    /\ UNCHANGED <<store, diskFaulty, appended, http, mdns, probe>>

\* The peer's close frame arrives: the socket is closing.
PeerClose ==
    /\ ws.readyState = "OPEN"
    /\ ws' = [ws EXCEPT !.readyState = "CLOSING"]
    /\ UNCHANGED <<store, diskFaulty, appended, http, mdns, probe>>

\* ws.on('error'): the handler logs the error. The socket is closing
\* from then on, and its close event follows.
SocketError ==
    /\ ws.readyState = "OPEN"
    /\ ws' = [ws EXCEPT !.readyState = "CLOSING",
                        !.trace = Append(@, [Entry("error", NA) EXCEPT !.state = "CLOSING"])]
    /\ UNCHANGED <<store, diskFaulty, appended, http, mdns, probe>>

\* ws.on('close'), both handlers: a log line, and clearInterval.
CloseEvent ==
    /\ ws.readyState = "CLOSING"
    /\ ws' = clearTick([ws EXCEPT !.readyState = "CLOSED",
                                  !.trace = Append(@, [Entry("close", NA) EXCEPT !.state = "CLOSED"])])
    /\ UNCHANGED <<store, diskFaulty, appended, http, mdns, probe>>

WsNext ==
    \/ Accept
    \/ OnMessage
    \/ AdvanceTime
    \/ \E d \in Durations : RunTimerList(d)
    \/ PeerClose
    \/ SocketError
    \/ CloseEvent

WsSpec == WsInit /\ [][WsNext]_vars

(***************************************************************************)
(* WsLiveSpec: the connection of WsSpec with fewer kinds of frames, under  *)
(* the fairness the event loop gives: time does not stop, and a timers     *)
(* phase that has a due timer list runs it.                                *)
(***************************************************************************)
LiveFrameSamples ==
    { ReqFrame("health", NoParams),
      ReqFrame("agent", Params("str", "absent", "absent")) }

WsLiveNext ==
    \/ AcceptFrom({"10.0.0.1"})
    \/ OnMessageFrom(LiveFrameSamples)
    \/ AdvanceTime
    \/ \E d \in Durations : RunTimerList(d)
    \/ PeerClose
    \/ CloseEvent

WsLiveSpec ==
    /\ WsInit
    /\ [][WsLiveNext]_vars
    /\ WF_vars(Advance(TRUE))
    /\ \A d \in Durations : WF_vars(RunTimerList(d))

(***************************************************************************)
(* DispatchSpec: handleRequest as a function of the request, over every    *)
(* method of either version's switch, some methods of neither, and every   *)
(* shape of the params the cases read.                                     *)
(***************************************************************************)
UnknownMethods == {"CONNECT", "sessions.patch", "totally.unknown", NA}

ProbeMethods == RichMethods \cup UnknownMethods

ParamShapes == {"absent", "empty", "str", "bad"}

DispatchInit ==
    /\ store = NewStore(DefaultCap)
    /\ diskFaulty = FALSE
    /\ appended = << >>
    /\ ws = WsIdle
    /\ http = HttpIdle
    /\ mdns = MdnsIdle
    /\ \E v \in Variants, m \in ProbeMethods, p, g, t \in ParamShapes :
          probe = [ProbeIdle EXCEPT !.phase = "drawn", !.variant = v,
                                    !.frame = ReqFrame(m, Params(p, g, t))]

Dispatch ==
    /\ probe.phase = "drawn"
    /\ probe' = [probe EXCEPT !.phase = "applied",
                              !.hr = handleRequest(probe.variant, probe.frame)]
    /\ UNCHANGED <<store, diskFaulty, appended, ws, http, mdns>>

DispatchNext == Dispatch

DispatchSpec == DispatchInit /\ [][DispatchNext]_vars

(***************************************************************************)
(* StartSpec: one start of the process, in an environment of its choosing. *)
(* Here `probe` is the state of the startup.                               *)
(***************************************************************************)
StartInit ==
    /\ store = NewStore(DefaultCap)
    /\ diskFaulty = FALSE
    /\ appended = << >>
    /\ ws = WsIdle
    /\ http = HttpIdle
    /\ mdns = MdnsIdle
    /\ \E env \in StartEnvs : probe = StartIdle(env)

StartFrame == UNCHANGED <<store, diskFaulty, appended, ws, http, mdns>>

\* main: startHoneypot unless --admin-only.
Main ==
    /\ probe.pc = "main"
    /\ probe' = IF probe.env.adminOnly
                THEN [probe EXCEPT !.pc = IF probe.env.honeypotOnly THEN "running" ELSE "admin"]
                ELSE [probe EXCEPT !.pc = "mdns", !.honeypot = "pending"]
    /\ StartFrame

\* await startMdnsServer()
StartMdnsServer ==
    /\ probe.pc = "mdns"
    /\ LET r == startMdnsServer(probe.env)
       IN  probe' = [probe EXCEPT
                        !.mdns = r.listener,
                        !.log = @ \cup r.logged,
                        !.honeypot = IF r.promise = "rejected" THEN "rejected" ELSE @,
                        !.pc = IF r.promise = "rejected" THEN "catch" ELSE "ui"]
    /\ StartFrame

\* await startUiServer()
StartUiServer ==
    /\ probe.pc = "ui"
    /\ LET r == startUiServer(probe.env)
       IN  probe' = [probe EXCEPT
                        !.ui = r.listener,
                        !.log = @ \cup r.logged,
                        !.honeypot = IF r.promise = "rejected" THEN "rejected" ELSE @,
                        !.pc = IF r.promise = "rejected" THEN "catch" ELSE "listen"]
    /\ StartFrame

\* httpServer.listen(...): the promise startHoneypot returns.
Listen ==
    /\ probe.pc = "listen"
    /\ LET r == listenGateway(probe.env)
       IN  probe' = [probe EXCEPT
                        !.gateway = r.listener,
                        !.log = @ \cup r.logged,
                        !.honeypot = IF r.promise = "thrown" THEN @ ELSE r.promise,
                        !.pc = CASE r.promise = "thrown" -> "uncaught"
                                 [] r.promise = "rejected" -> "catch"
                                 [] probe.env.honeypotOnly -> "running"
                                 [] OTHER -> "admin"]
    /\ StartFrame

\* await startAdminServer() unless --honeypot-only.
StartAdminServer ==
    /\ probe.pc = "admin"
    /\ LET r == startAdminServer(probe.env)
       IN  probe' = [probe EXCEPT
                        !.admin = r.listener,
                        !.log = @ \cup r.logged,
                        !.pc = IF r.promise = "rejected" THEN "catch" ELSE "running"]
    /\ StartFrame

\* catch (err) { console.error('Failed to start:', err); process.exit(1); }
MainCatch ==
    /\ probe.pc = "catch"
    /\ probe' = [probe EXCEPT !.pc = "exited", !.exit = 1, !.log = @ \cup {"Failed to start"}]
    /\ StartFrame

\* An exception nobody catches ends the process with status 1.
UncaughtException ==
    /\ probe.pc = "uncaught"
    /\ probe' = [probe EXCEPT !.pc = "exited", !.exit = 1]
    /\ StartFrame

StartNext ==
    \/ Main
    \/ StartMdnsServer
    \/ StartUiServer
    \/ Listen
    \/ StartAdminServer
    \/ MainCatch
    \/ UncaughtException

StartSpec == StartInit /\ [][StartNext]_vars

(***************************************************************************)
(* HttpSpec: requests to the gateway's HTTP listener and the timers of     *)
(* its streamed responses.                                                 *)
(***************************************************************************)
HttpInit ==
    /\ store = NewStore(DefaultCap)
    /\ diskFaulty = FALSE
    /\ appended = << >>
    /\ ws = WsIdle
    /\ \E d \in {"object", "undefined"}, len \in ContentLens :
          http = [HttpIdle EXCEPT !.bodyDefault = d, !.contentLen = len]
    /\ mdns = MdnsIdle
    /\ probe = ProbeIdle

\* One request through the middleware chain: the body parsers, the capture
\* middleware, the route.
OnRequestFrom(samples) ==
    /\ Len(http.requests) < MaxRequests
    /\ \E req \in samples :
          LET n == Len(http.requests) + 1
              parsed == bodyParsers(req)
              data == HttpData(req.ip, req.method, req.path, req.body)
              routed == route(req, http.bodyDefault)
          IN  /\ (~parsed.failed /\ routed.stream) => Len(http.streams) < MaxStreams
              /\ IF parsed.failed
                 THEN /\ http' = [http EXCEPT
                                    !.requests = Append(@, req),
                                    !.log = Append(@, HttpEntry("respond", n, parsed.status, 0))]
                      /\ UNCHANGED <<store, appended>>
                 ELSE /\ store' = recordHttpRequest(store, NextId, data, ~diskFaulty)
                      /\ appended' = Append(appended, httpAttack(NextId, data))
                      /\ http' = [http EXCEPT
                                    !.requests = Append(@, req),
                                    !.log = Append(@, HttpEntry("record", n, 0, 0)) \o
                                            (IF routed.stream THEN startStream(n)
                                             ELSE <<[HttpEntry("respond", n, routed.status, 0)
                                                      EXCEPT !.body = routed.body]>>),
                                    !.streams = IF routed.stream
                                                THEN Append(@, [req |-> n, index |-> 0])
                                                ELSE @]
    /\ UNCHANGED <<diskFaulty, ws, mdns, probe>>

OnRequest == OnRequestFrom(HttpRequestSamples)

\* The timer of one stream fires.
SendChunk ==
    /\ \E i \in 1 .. Len(http.streams) :
          LET st == http.streams[i]
              sent == sendChunk(st.req, st.index, http.contentLen)
              others == [j \in 1 .. Len(http.streams) - 1 |->
                            IF j < i THEN http.streams[j] ELSE http.streams[j + 1]]
          IN  http' = [http EXCEPT
                         !.log = @ \o sent.out,
                         !.streams = IF sent.done THEN others
                                     ELSE [@ EXCEPT ![i].index = sent.index]]
    /\ UNCHANGED <<store, diskFaulty, appended, ws, mdns, probe>>

\* The client closes the socket of a response that is being streamed. No
\* handler is registered for it: the stream's timer stays set.
ClientClose ==
    /\ \E i \in 1 .. Len(http.streams) :
          LET n == http.streams[i].req
          IN  /\ \A k \in 1 .. Len(http.log) :
                    ~(http.log[k].op = "closed" /\ http.log[k].req = n)
              /\ http' = [http EXCEPT !.log = Append(@, HttpEntry("closed", n, 0, 0))]
    /\ UNCHANGED <<store, diskFaulty, appended, ws, mdns, probe>>

HttpNext ==
    \/ OnRequest
    \/ SendChunk
    \/ ClientClose

HttpSpec == HttpInit /\ [][HttpNext]_vars

(***************************************************************************)
(* RestartSpec: whole record operations on a working disk, each stamped    *)
(* with the millisecond of the wall clock, and the process stopped between *)
(* operations and started again on the same data directory.  Here `probe`  *)
(* is the clock and the store the last process left.                       *)
(***************************************************************************)
MaxClock == 2     \* the wall clock runs from millisecond 1 to MaxClock

RestartIdle == [now |-> 1, restarted |-> FALSE, left |-> NewStore(0)]

RestartInit ==
    /\ \E cap \in 0 .. MaxCap : store = NewStore(cap)
    /\ diskFaulty = FALSE
    /\ appended = << >>
    /\ ws = WsIdle
    /\ http = HttpIdle
    /\ mdns = MdnsIdle
    /\ probe = RestartIdle

\* new Date().toISOString() in the attack object.
stamped(attack, now) == [attack EXCEPT !.timestamp = now]

\* A record operation whose attack object carries the given millisecond.
recordAt(s, id, call, now) ==
    LET whole == recordWhole(s, id, call, TRUE)
        fix(arr) == [i \in 1 .. Len(arr) |->
                        IF arr[i].id = id THEN stamped(arr[i], now) ELSE arr[i]]
    IN  [whole EXCEPT !.attacks = fix(@), !.logFile = fix(@)]

RecordNow ==
    /\ Len(appended) < MaxEvents
    /\ \E call \in RecordCalls :
          /\ store' = recordAt(store, NextId, call, probe.now)
          /\ appended' = Append(appended, stamped(attackOf(NextId, call), probe.now))
    /\ probe' = [probe EXCEPT !.restarted = FALSE]
    /\ UNCHANGED <<diskFaulty, ws, http, mdns>>

\* The wall clock reaches the next millisecond.
ClockTick ==
    /\ probe.now < MaxClock
    /\ probe' = [probe EXCEPT !.now = @ + 1]
    /\ UNCHANGED <<store, diskFaulty, appended, ws, http, mdns>>

\* The process is stopped and new AttackStore() runs on the same directory.
Restart ==
    /\ ~probe.restarted
    /\ store' = loadExistingData(store)
    /\ probe' = [probe EXCEPT !.restarted = TRUE, !.left = store]
    /\ UNCHANGED <<diskFaulty, appended, ws, http, mdns>>

RestartNext ==
    \/ RecordNow
    \/ ClockTick
    \/ Restart

RestartSpec == RestartInit /\ [][RestartNext]_vars

(***************************************************************************)
(* MdnsSpec: datagrams arriving at the mDNS responder.                     *)
(***************************************************************************)
Ports == {5353, 40000}

MdnsInit ==
    /\ store = NewStore(DefaultCap)
    /\ diskFaulty \in BOOLEAN
    /\ appended = << >>
    /\ ws = WsIdle
    /\ http = HttpIdle
    /\ \E v6 \in BOOLEAN : mdns = [MdnsIdle EXCEPT !.ipv6 = v6]
    /\ probe = ProbeIdle

\* server.on('message')
OnDatagramFrom(samples, ips, ports) ==
    /\ Len(mdns.received) < MaxDatagrams
    /\ \E msg \in samples, ip \in ips, port \in ports :
          LET rinfo == [address |-> ip, port |-> port]
              n == Len(mdns.received) + 1
              replies == onDatagram(msg, rinfo, mdns.ipv6)
          IN  mdns' = [mdns EXCEPT
                         !.received = Append(@, [msg |-> msg, rinfo |-> rinfo]),
                         !.sent = @ \o [i \in 1 .. Len(replies) |->
                                           [n |-> n, to |-> replies[i].to,
                                            reply |-> replies[i].reply]]]
    /\ UNCHANGED <<store, diskFaulty, appended, ws, http, probe>>

OnDatagram == OnDatagramFrom(DatagramSamples, IPs, Ports)

MdnsNext == OnDatagram

MdnsSpec == MdnsInit /\ [][MdnsNext]_vars

(***************************************************************************)
(* ReplySpec: buildResponse as a function of the query, the configuration  *)
(* and the interfaces of the host, in both versions of the responder.      *)
(***************************************************************************)
ParsedQueries == {parseQuery(msg) : msg \in {m \in DatagramSamples : parseQuery(m).ok}}

ReplyInit ==
    /\ store = NewStore(DefaultCap)
    /\ diskFaulty = FALSE
    /\ appended = << >>
    /\ ws = WsIdle
    /\ http = HttpIdle
    /\ mdns = MdnsIdle
    /\ \E v \in MdnsVariants, host \in HostLens, svc \in ServiceConfigs,
          v6 \in BOOLEAN, query \in ParsedQueries :
          probe = [ReplyIdle EXCEPT !.phase = "drawn", !.variant = v, !.host = host,
                                    !.svc = svc, !.ipv6 = v6, !.query = query]

BuildResponse ==
    /\ probe.phase = "drawn"
    /\ probe' = [probe EXCEPT
          !.phase = "built",
          !.reply = buildReply(probe.variant, probe.host, probe.svc, probe.query, probe.ipv6)]
    /\ UNCHANGED <<store, diskFaulty, appended, ws, http, mdns>>

ReplyNext == BuildResponse

ReplySpec == ReplyInit /\ [][ReplyNext]_vars

(***************************************************************************)
(* DurableSpec: record operations run statement by statement; the process  *)
(* can stop at any statement and start again on the same data directory,   *)
(* and writes to the directory can begin and cease to fail at any time.    *)
(* Here `appended` is the history of the records handed to _appendToLog,   *)
(* and `probe` is the operation in progress.                               *)
(***************************************************************************)
DurableInit ==
    /\ \E cap \in 0 .. MaxCap : store = NewStore(cap)
    /\ diskFaulty = FALSE
    /\ appended = << >>
    /\ ws = WsIdle
    /\ http = HttpIdle
    /\ mdns = MdnsIdle
    /\ probe = DurableIdle

\* A caller enters a record operation: the attack object is built.
Call ==
    /\ probe.pc = 0
    /\ Len(appended) < MaxOps
    /\ \E call \in RecordCalls :
          probe' = [probe EXCEPT !.pc = 1, !.call = call, !.id = NextId,
                                 !.attack = attackOf(NextId, call),
                                 !.before = store.stats,
                                 !.whole = [written |-> recordWhole(store, NextId, call, TRUE),
                                            failed |-> recordWhole(store, NextId, call, FALSE)],
                                 !.appendOk = FALSE, !.saveOk = FALSE,
                                 !.ended = FALSE, !.threw = FALSE]
    /\ UNCHANGED <<store, diskFaulty, appended, ws, http, mdns>>

At(step) == probe.pc > 0 /\ recordSteps[probe.pc] = step

\* After a statement: the next one, or the return of the attack to the caller.
stepDone(p) ==
    IF p.pc = Len(recordSteps)
    THEN [p EXCEPT !.pc = 0, !.ended = TRUE]
    ELSE [p EXCEPT !.pc = @ + 1]

\* An exception leaves the operation at once.
stepThrew(p) == [p EXCEPT !.pc = 0, !.ended = TRUE, !.threw = TRUE]

Push ==
    /\ At("push")
    /\ store' = [store EXCEPT !.attacks = Append(@, probe.attack)]
    /\ probe' = stepDone(probe)
    /\ UNCHANGED <<diskFaulty, appended, ws, http, mdns>>

AppendToLog ==
    /\ At("append")
    /\ LET r == tryAppendToLog(store, probe.attack, ~diskFaulty)
       IN  /\ store' = IF r.threw THEN r.store ELSE trim(r.store)
           /\ probe' = IF r.threw THEN stepThrew(probe)
                       ELSE stepDone([probe EXCEPT !.appendOk = ~diskFaulty])
    /\ appended' = Append(appended, probe.attack)
    /\ UNCHANGED <<diskFaulty, ws, http, mdns>>

CountStep ==
    /\ At("count")
    /\ store' = [store EXCEPT !.stats = countersAfter(@, probe.call, probe.attack)]
    /\ probe' = stepDone(probe)
    /\ UNCHANGED <<diskFaulty, appended, ws, http, mdns>>

SaveStats ==
    /\ At("save")
    /\ LET r == trySaveStats(store, ~diskFaulty)
       IN  /\ store' = r.store
           /\ probe' = IF r.threw THEN stepThrew(probe)
                       ELSE stepDone([probe EXCEPT !.saveOk = ~diskFaulty])
    /\ UNCHANGED <<diskFaulty, appended, ws, http, mdns>>

\* The process stops wherever it is and a new one starts.
Crash ==
    /\ store' = loadExistingData(store)
    /\ probe' = [DurableIdle EXCEPT !.restarted = TRUE]
    /\ UNCHANGED <<diskFaulty, appended, ws, http, mdns>>

\* The process stops inside writeFileSync: stats.json is left cut short; the
\* new process fails to parse it and keeps the constructor's stats, which is
\* what it reads here from the file.
CrashInSave ==
    /\ At("save")
    /\ ~diskFaulty
    /\ store' = loadExistingData([store EXCEPT !.statsFile = [exists |-> TRUE, data |-> EmptyStats]])
    /\ probe' = [DurableIdle EXCEPT !.restarted = TRUE]
    /\ UNCHANGED <<diskFaulty, appended, ws, http, mdns>>

DiskFails ==
    /\ ~diskFaulty
    /\ diskFaulty' = TRUE
    /\ UNCHANGED <<store, appended, ws, http, mdns, probe>>

DiskRecovers ==
    /\ diskFaulty
    /\ diskFaulty' = FALSE
    /\ UNCHANGED <<store, appended, ws, http, mdns, probe>>

DurableNext ==
    \/ Call
    \/ Push
    \/ AppendToLog
    \/ CountStep
    \/ SaveStats
    \/ Crash
    \/ CrashInSave
    \/ DiskFails
    \/ DiskRecovers

DurableSpec == DurableInit /\ [][DurableNext]_vars

(***************************************************************************)
(* MixSpec: the gateway's HTTP listener, one WebSocket connection with its *)
(* timers and the mDNS responder in one process, their handlers running in *)
(* any order on the one store.  A handler runs to its end before the next  *)
(* starts: the record operations are synchronous and await nothing.        *)
(***************************************************************************)
MixRequestSamples ==
    { HttpRequest("10.0.0.2", "GET", <<"/">>, << >>, "none", FALSE, "absent"),
      HttpRequest("10.0.0.1", "POST", <<"/v1/chat/completions">>, <<"IGNORE">>, "object", FALSE, "str") }

MixDatagramSamples ==
    { Datagram(HeaderLen, 7, 0, 1, <<1, 97, 0, 0, TypePTR, 0, 1>>) }

MixInputs == 3        \* requests, connections, frames and datagrams of a run of MixSpec

\* The inputs the process has taken so far, from all its listeners.
MixTaken ==
    Len(http.requests) + Len(mdns.received) + Len(ws.received)
        + (IF ws.readyState = "NONE" THEN 0 ELSE 1)

MixInit ==
    /\ \E cap \in {1, DefaultCap} : store = NewStore(cap)
    /\ diskFaulty = FALSE
    /\ appended = << >>
    /\ \E v \in Variants : ws = [WsIdle EXCEPT !.variant = v]
    /\ http = HttpIdle
    /\ mdns = MdnsIdle
    /\ probe = ProbeIdle

MixNext ==
    \/ MixTaken < MixInputs /\ OnRequestFrom(MixRequestSamples)
    \/ MixTaken < MixInputs /\ AcceptFrom({"10.0.0.1"})
    \/ MixTaken < MixInputs /\ OnMessageFrom(LiveFrameSamples)
    \/ AdvanceTime
    \/ \E d \in Durations : RunTimerList(d)
    \/ PeerClose
    \/ CloseEvent
    \/ MixTaken < MixInputs /\ OnDatagramFrom(MixDatagramSamples, {"10.0.0.2"}, {5353})

MixSpec == MixInit /\ [][MixNext]_vars

(***************************************************************************)
(* AdminSpec: the admin server beside the store.  Records are made by the  *)
(* honeypot's listeners (the store's record operations); requests come to  *)
(* the admin server, one stream at most is open, and its timer runs.       *)
(***************************************************************************)
AdminInit ==
    /\ \E cap \in 0 .. MaxCap : store = NewStore(cap)
    /\ diskFaulty = FALSE
    /\ appended = << >>
    /\ ws = WsIdle
    /\ http = HttpIdle
    /\ mdns = MdnsIdle
    /\ probe = AdminIdle

\* One request through basicAuth and its route.
OnAdminRequestFrom(samples) ==
    /\ Len(probe.requests) < MaxAdminRequests
    /\ \E req \in samples :
          LET res == adminApp(store, req)
              opens == res.kind = "stream"
          IN  /\ opens => probe.stream.state = "none"
              /\ probe' = [probe EXCEPT
                    !.requests = Append(@, req),
                    !.log = Append(@, res),
                    !.stream = IF opens THEN openStream(store, Len(appended)) ELSE @]
    /\ UNCHANGED <<store, diskFaulty, appended, ws, http, mdns>>

OnAdminRequest == OnAdminRequestFrom(AdminRequestSamples)

\* A record operation of the store, called by one of the listeners.
AdminRecord ==
    /\ Len(appended) < MaxEvents
    /\ \E data \in {HttpData("10.0.0.1", "GET", <<"/">>, << >>)} :
          /\ store' = recordHttpRequest(store, NextId, data, TRUE)
          /\ appended' = Append(appended, httpAttack(NextId, data))
    /\ UNCHANGED <<diskFaulty, ws, http, mdns, probe>>

\* The stream's interval fires.  Past MaxPolls runs the stats events are no
\* longer followed.
Poll ==
    /\ probe.stream.state = "open"
    /\ \E statsDue \in (IF probe.stream.polls < MaxPolls THEN BOOLEAN ELSE {FALSE}) :
          probe' = [probe EXCEPT !.stream = poll(@, store, statsDue)]
    /\ UNCHANGED <<store, diskFaulty, appended, ws, http, mdns>>

\* req.on('close'): clearInterval.
StreamClose ==
    /\ probe.stream.state = "open"
    /\ probe' = [probe EXCEPT !.stream.state = "closed",
                              !.stream.closedWith = Len(probe.stream.written)]
    /\ UNCHANGED <<store, diskFaulty, appended, ws, http, mdns>>

AdminNext ==
    \/ OnAdminRequest
    \/ AdminRecord
    \/ Poll
    \/ StreamClose

AdminSpec == AdminInit /\ [][AdminNext]_vars

(***************************************************************************)
(* AdminLiveSpec: one dashboard with the right credentials opens the       *)
(* stream; the interval of an open stream keeps firing.                    *)
(***************************************************************************)
AdminCredentials == Base64(AdminUsername \o <<":">> \o AdminPassword, FALSE)

DashboardRequests ==
    { AdminRequest("/api/stream", AuthHeader("Basic ", AdminCredentials), NA, 100, 0) }

AdminLiveNext ==
    \/ OnAdminRequestFrom(DashboardRequests)
    \/ AdminRecord
    \/ Poll
    \/ StreamClose

AdminLiveSpec == AdminInit /\ [][AdminLiveNext]_vars /\ WF_vars(Poll)

(***************************************************************************)
(* EffectSpec: requests that read and requests that claim to write, on one *)
(* connection, in any order.                                               *)
(***************************************************************************)
EffectInit ==
    /\ store = NewStore(DefaultCap)
    /\ diskFaulty = FALSE
    /\ appended = << >>
    /\ ws = WsIdle
    /\ http = HttpIdle
    /\ mdns = MdnsIdle
    /\ \E v \in Variants, name \in ServiceNames :
          probe = [EffectIdle(name) EXCEPT !.variant = v]

\* One req frame through handleRequest.
Request ==
    /\ Len(probe.calls) < MaxCalls
    /\ \E m \in ReadMethods \cup WriteMethods, value \in {"moltbot", "owned"} :
          LET message == ReqFrame(m, IF m = "config.set" THEN KeyValue("serviceName", value)
                                     ELSE NoParams)
              done == handleRequestOn(probe.variant, probe.config, message)
          IN  probe' = [probe EXCEPT
                  !.config = done.config,
                  !.calls = Append(@, [method |-> m, ok |-> done.hr.res.ok,
                                       detail |-> done.detail])]
    /\ UNCHANGED <<store, diskFaulty, appended, ws, http, mdns>>

EffectNext == Request

EffectSpec == EffectInit /\ [][EffectNext]_vars

(***************************************************************************)
(* Claims about the store, checked under Spec.                             *)
(***************************************************************************)
Categories ==
    { "tool_invoke", "prompt_injection", "chat_completion", "openresponses",
      "reconnaissance", "ui_access", "health_check", "other",
      "ws_connect", "ws_auth", "ws_send", "ws_agent", "ws_health", "ws_other",
      "malformed", "mdns_discovery" }

Kinds == {"http", "ws_connection", "ws_message", "mdns_query"}

Indices(seq) == 1 .. Len(seq)

EverOfKind(kind) == {i \in Indices(appended) : appended[i].type = kind}

EverOfCategory(c) == {i \in Indices(appended) : appended[i].category = c}

\* The source IPs of every HTTP, WS-connection and mDNS record ever created.
CountedIps ==
    { appended[i].ip : i \in EverOfKind("http") \cup EverOfKind("ws_connection")
                              \cup EverOfKind("mdns_query") }

\* C2: starting from an empty store, after any sequence of record
\* operations getStats() gives, for every category, the number of records
\* ever appended with that category (a category never seen has no entry,
\* read as 0), each total counter equals the number of records of that kind
\* ever appended, whatever the window evicted, and uniqueIps is the number
\* of distinct source IPs over the HTTP, WS-connection and mDNS records.
C2_CountersMatchHistory ==
    LET st == getStats(store)
    IN  /\ DOMAIN st.attacksByType \subseteq Categories
        /\ \A c \in Categories :
              Count(st.attacksByType, c) = Cardinality(EverOfCategory(c))
        /\ st.totalHttpRequests = Cardinality(EverOfKind("http"))
        /\ st.totalWsConnections = Cardinality(EverOfKind("ws_connection"))
        /\ st.totalWsMessages = Cardinality(EverOfKind("ws_message"))
        /\ st.totalMdnsQueries = Cardinality(EverOfKind("mdns_query"))
        /\ st.uniqueIps = Cardinality(CountedIps)

\* A run where the window has evicted a record and a WebSocket message came
\* from an address no counted record came from.
C2_Witness ==
    /\ Len(appended) = MaxEvents
    /\ Len(store.attacks) < Len(appended)
    /\ \E i \in EverOfKind("ws_message") : appended[i].ip \notin CountedIps
    /\ CountedIps # {}

Folds(word) ==
    CASE word = "/tools/invoke" -> {"/tools/invoke", "/TOOLS/INVOKE"}
      [] word = "/v1/chat/completions" -> {"/v1/chat/completions", "/V1/CHAT/COMPLETIONS"}
      [] word = "/v1/responses" -> {"/v1/responses", "/V1/RESPONSES"}
      [] word = "/v1/models" -> {"/v1/models", "/V1/MODELS"}
      [] word = "/health" -> {"/health", "/HEALTH"}
      [] word = "ignore" -> {"ignore", "IGNORE"}
      [] word = "system" -> {"system", "SYSTEM"}
      [] word = "jailbreak" -> {"jailbreak", "JAILBREAK", "Jailbreak"}

Mentions(text, word) == \E i \in 1 .. Len(text) : text[i] \in Folds(word)

\* The documented decision list: the rules in their order, each with the
\* category it gives.
CategoryRules(path, body) ==
    << [hit |-> Mentions(path, "/tools/invoke"), gives |-> "tool_invoke"],
       [hit |-> Mentions(path, "/v1/chat/completions"),
        gives |-> IF \E w \in {"ignore", "system", "jailbreak"} : Mentions(body, w)
                  THEN "prompt_injection" ELSE "chat_completion"],
       [hit |-> Mentions(path, "/v1/responses"), gives |-> "openresponses"],
       [hit |-> Mentions(path, "/v1/models"), gives |-> "reconnaissance"],
       [hit |-> path = <<"/">>, gives |-> "ui_access"],
       [hit |-> Mentions(path, "/health"), gives |-> "health_check"],
       [hit |-> TRUE, gives |-> "other"] >>

DocumentedCategory(path, body) ==
    LET rules == CategoryRules(path, body)
        first == CHOOSE i \in 1 .. Len(rules) :
                    rules[i].hit /\ \A j \in 1 .. (i - 1) : ~rules[j].hit
    IN  rules[first].gives

\* C17: the category of an HTTP record is the one the documented decision
\* list gives for its path and body, first match winning, whatever the case
\* of the letters and whatever the method.
C17_CategoryByPathAndBody ==
    \A i \in 1 .. Len(appended) :
        appended[i].type = "http" =>
            appended[i].category = DocumentedCategory(appended[i].path, appended[i].body)

\* A recorded request whose path matches two rules and is written in upper
\* case got the category of the earlier rule.
C17_Witness ==
    \E i \in 1 .. Len(appended) :
        /\ appended[i].type = "http"
        /\ appended[i].path = <<"/v1/models", "/TOOLS/INVOKE">>
        /\ appended[i].body = <<"JAILBREAK", "hello">>
        /\ appended[i].method = "GET"
        /\ appended[i].category = "tool_invoke"
        /\ store.stats.attacksByType = Bump(<< >>, "tool_invoke")

(***************************************************************************)
(* Durability of the store.                                                *)
(***************************************************************************)
TotalOfKind(st, kind) ==
    CASE kind = "http" -> st.totalHttpRequests
      [] kind = "ws_connection" -> st.totalWsConnections
      [] kind = "ws_message" -> st.totalWsMessages
      [] kind = "mdns_query" -> st.totalMdnsQueries

LinesOfKind(kind) ==
    Cardinality({i \in Indices(store.logFile) : store.logFile[i].type = kind})

LinesOfCategory(c) ==
    Cardinality({i \in Indices(store.logFile) : store.logFile[i].category = c})

\* The counters of st count no event whose line is not in the daily log.
WithinLog(st) ==
    /\ \A kind \in Kinds : TotalOfKind(st, kind) <= LinesOfKind(kind)
    /\ \A c \in Categories : Count(st.attacksByType, c) <= LinesOfCategory(c)

\* C19: as long as no append to the log has failed, the counters in memory
\* and the counters of the persisted snapshot count only events whose line
\* is in the daily log, wherever the process stopped and started again.
C19_SnapshotWithinLog ==
    store.logFile = appended =>
        /\ WithinLog(store.stats)
        /\ store.statsFile.exists => WithinLog(store.statsFile.data)

\* The process stopped between the append and the rewrite of the snapshot:
\* the log holds a line that the snapshot read back does not count.
C19_Witness ==
    /\ probe.restarted
    /\ probe.pc = 0
    /\ store.logFile = appended
    /\ Len(store.logFile) = 2
    /\ store.statsFile.exists
    /\ store.stats = store.statsFile.data
    /\ store.stats.totalHttpRequests = 1
    /\ LinesOfKind("http") = 2

\* C20: a record operation that has ended threw nothing, its record is the
\* newest of the window, the counters in memory are those before it plus
\* its own, and whatever write succeeded is on disk: its line is the last of
\* the log, and the snapshot is the whole of the counters in memory.
C20_WriteFailureSwallowed ==
    (probe.pc = 0 /\ probe.ended) =>
        /\ ~probe.threw
        /\ Len(store.attacks) > 0
        /\ store.attacks[Len(store.attacks)] = probe.attack
        /\ store.stats = countersAfter(probe.before, probe.call, probe.attack)
        /\ probe.appendOk =>
              (Len(store.logFile) > 0 /\ store.logFile[Len(store.logFile)] = probe.attack)
        /\ probe.saveOk => store.statsFile = [exists |-> TRUE, data |-> store.stats]

\* An operation whose writes failed ended, and a later one persisted again:
\* the log lacks the first line, the snapshot counts both events.
C20_Witness ==
    /\ probe.pc = 0 /\ probe.ended /\ ~probe.restarted
    /\ probe.appendOk /\ probe.saveOk
    /\ Len(appended) = 2
    /\ Len(store.logFile) = 1
    /\ Len(store.attacks) = 2
    /\ store.statsFile.data.totalHttpRequests = 2

\* An operation that ran to its end leaves the store as the whole operation
\* does, with both writes succeeding or both failing.
StepsMatchWhole ==
    (probe.pc = 0 /\ probe.ended) =>
        /\ (probe.appendOk /\ probe.saveOk) => store = probe.whole.written
        /\ (~probe.appendOk /\ ~probe.saveOk) => store = probe.whole.failed

(***************************************************************************)
(* Restart of the store.                                                   *)
(***************************************************************************)
\* C21: a store constructed again on the directory another left has the
\* counters, maps and unique-IP set the other had, and its window holds the
\* min(capacity, n) records appended last, in arrival order, so that with a
\* capacity of at least 1 getRecentAttacks(1, 0) is the record appended last.
C21_RestartReproducesStore ==
    probe.restarted =>
        LET n == Len(appended)
            cap == store.maxInMemory
        IN  /\ store.stats = probe.left.stats
            /\ store.attacks = SubSeq(appended, n - Min(cap, n) + 1, n)
            /\ (cap >= 1 /\ n >= 1) => getRecentAttacks(store, 1, 0) = <<appended[n]>>

\* C22: the window is the last records of the arrival order, in that order
\* (so the records dropped are those that arrived first), the lines of the
\* log are in arrival order, and getRecentAttacks returns the window in the
\* reverse of the arrival order.
C22_ArrivalOrder ==
    LET n == Len(appended)
        w == Len(store.attacks)
        recent == getRecentAttacks(store, w, 0)
    IN  /\ w <= n
        /\ store.attacks = SubSeq(appended, n - w + 1, n)
        /\ \A i \in 1 .. w : recent[i] = appended[n + 1 - i]
        /\ \A i \in Indices(store.logFile) :
              /\ store.logFile[i].id \in Indices(appended)
              /\ store.logFile[i] = appended[store.logFile[i].id]
              /\ \A j \in Indices(store.logFile) :
                    i < j => store.logFile[i].id < store.logFile[j].id

(***************************************************************************)
(* The object returned by getStats.                                        *)
(***************************************************************************)
\* C29: the object getStats returned shows the unique addresses as a count
\* and keeps, in every field, what it held when it was returned, whatever is
\* recorded afterwards.
C29_StatsObjectFrozen ==
    probe.taken =>
        /\ probe.object.uniqueIps \in Nat
        /\ readStatsObject(probe.object, store) = probe.atCall

(***************************************************************************)
(* Record operations under the interleaving of all the listeners.          *)
(***************************************************************************)
WindowOfKind(kind) ==
    Cardinality({i \in Indices(store.attacks) : store.attacks[i].type = kind})

WindowOfCategory(c) ==
    Cardinality({i \in Indices(store.attacks) : store.attacks[i].category = c})

\* C30: whatever the order in which requests, connections, frames, timers
\* and datagrams are handled, in every state between two handlers (the
\* states a reader runs in) no counter update is missing (each total is the
\* number of records of its kind ever made, each category count likewise),
\* the daily log holds one whole line per record made, in the order made,
\* and every record getRecentAttacks returns is already in the counters
\* getStats returns.
C30_RecordIndivisible ==
    LET st == getStats(store)
        recent == getRecentAttacks(store, Len(store.attacks), 0)
    IN  /\ \A kind \in Kinds : TotalOfKind(st, kind) = Cardinality(EverOfKind(kind))
        /\ \A c \in Categories :
              Count(st.attacksByType, c) = Cardinality(EverOfCategory(c))
        /\ store.logFile = appended
        /\ st.attacksInMemory = Len(recent)
        /\ \A i \in Indices(recent) :
              /\ \E n \in Indices(appended) : recent[i] = appended[n]
              /\ TotalOfKind(st, recent[i].type) >= WindowOfKind(recent[i].type)
              /\ Count(st.attacksByType, recent[i].category)
                    >= WindowOfCategory(recent[i].category)

\* A request or a datagram was recorded between the connection and a frame
\* of it, and a record of the third listener was made as well.
C30_Witness ==
    /\ \E i, j, k \in Indices(appended) :
          /\ i < j /\ j < k
          /\ appended[i].type = "ws_connection"
          /\ appended[j].type \in {"http", "mdns_query"}
          /\ appended[k].type = "ws_message"
    /\ Len(store.attacks) < Len(appended)
    /\ Len(http.requests) >= 1

(***************************************************************************)
(* The window filtered by category or kind.                                *)
(***************************************************************************)
\* The records of the window whose category or kind is value, newest first.
MatchingNewestFirst(value) ==
    jsReverse(SelectSeq(store.attacks, LAMBDA a : a.category = value \/ a.type = value))

\* C36: for every value and every limit >= 0, getAttacksByType(value, limit)
\* is the first `limit` (or all, when there are fewer) of the window's
\* records whose category or kind is value, most recent first: never more
\* than limit records, and none with limit 0.
C36_ByTypeWithinLimit ==
    \A value \in Categories \cup Kinds, limit \in 0 .. MaxCap + 1 :
        LET got == getAttacksByType(store, value, limit)
            all == MatchingNewestFirst(value)
        IN  /\ Len(got) <= limit
            /\ got = SubSeq(all, 1, Min(limit, Len(all)))
(***************************************************************************)
(* Claims about the WebSocket gateway.                                     *)
(***************************************************************************)
TraceIdx == 1 .. Len(ws.trace)

FrameIdx == 1 .. Len(ws.received)

IsRes(e) == e.op = "send" /\ e.type = "res"

IsEvent(e, name) == e.op = "send" /\ e.type = "event" /\ e.event = name

ResOf(nf) == {i \in TraceIdx : IsRes(ws.trace[i]) /\ ws.trace[i].nf = nf}

RecordsOf(nf) == {i \in TraceIdx : ws.trace[i].op = "record" /\ ws.trace[i].nf = nf}

IsReq(frame) == frame.kind = "obj" /\ frame.type = "req"

\* C4: a frame that JSON.parse rejects is recorded as one ws_message record
\* of category `malformed` with a raw excerpt of 1 to 500 characters, is
\* sent no res frame, and leaves the connection open.
C4_InvalidFrameRecordedMalformed ==
    \A nf \in FrameIdx :
        ws.received[nf].kind = "invalid" =>
            /\ Cardinality(RecordsOf(nf)) = 1
            /\ \A i \in RecordsOf(nf) :
                  /\ ws.trace[i].type = "ws_message"
                  /\ ws.trace[i].category = "malformed"
                  /\ ws.trace[i].rawLen \in 1 .. RawCap
            /\ ResOf(nf) = {}

\* C6: once a connection is accepted, the ws_connection record is the first
\* thing done for it and the first record appended, the connect.challenge
\* event is the first frame sent, and every res frame comes after it.
C6_ChallengeFirst ==
    ws.readyState # "NONE" =>
        /\ Len(ws.trace) >= 2
        /\ ws.trace[1].op = "record" /\ ws.trace[1].type = "ws_connection"
        /\ appended[1].type = "ws_connection"
        /\ IsEvent(ws.trace[2], "connect.challenge")
        /\ \A i \in TraceIdx : ws.trace[i].op = "send" => i >= 2
        /\ \A i \in TraceIdx : IsRes(ws.trace[i]) => i > 2

\* C6 witness: a connection on which a res frame has been sent.
C6_Witness == \E i \in TraceIdx : IsRes(ws.trace[i])

\* C7: every parseable frame of type `req` is answered by exactly one res
\* frame carrying the request's id, whatever its method and params; a
\* parseable frame of another type is answered by none.
C7_OneResPerReq ==
    \A nf \in FrameIdx :
        LET frame == ws.received[nf]
        IN  /\ IsReq(frame) =>
                  /\ Cardinality(ResOf(nf)) = 1
                  /\ \A i \in ResOf(nf) : ws.trace[i].id = frame.id
            /\ (frame.kind # "invalid" /\ ~IsReq(frame)) => ResOf(nf) = {}

\* C9: a connect request is answered ok:true with a hello-ok payload for
\* every value of params.auth, and the answer to a request of another
\* method is the one its method and params alone determine.
C9_ConnectAlwaysAccepted ==
    \A nf \in FrameIdx :
        LET frame == ws.received[nf]
        IN  /\ (IsReq(frame) /\ frame.method = "connect") =>
                  \E i \in ResOf(nf) : ws.trace[i].ok /\ ws.trace[i].payload = "hello-ok"
            /\ (IsReq(frame) /\ frame.method # "connect") =>
                  \A i \in ResOf(nf) :
                      LET res == handleRequest(ws.variant, frame).res
                      IN  /\ ws.trace[i].ok = res.ok
                          /\ ws.trace[i].payload = res.payload
                          /\ ws.trace[i].code = res.code

\* The frames that started an agent run.
Runs == {nf \in FrameIdx : \E i \in ResOf(nf) : ws.trace[i].payload = "queued"}

EventsOf(run, name) ==
    {i \in TraceIdx : IsEvent(ws.trace[i], name) /\ ws.trace[i].run = run}

\* C10: of an agent run, the queued acknowledgement comes first, then
\* agent.started, then agent.completed, each at most once; agent.completed
\* is never sent before agent.started of the same run.
C10_StartedBeforeCompleted ==
    \A run \in Runs :
        /\ Cardinality(EventsOf(run, "agent.started")) <= 1
        /\ Cardinality(EventsOf(run, "agent.completed")) <= 1
        /\ \A a \in ResOf(run), s \in EventsOf(run, "agent.started") : a < s
        /\ \A c \in EventsOf(run, "agent.completed") :
              \E s \in EventsOf(run, "agent.started") : s < c

\* The method names of the documented dispatch table.
DocumentedMethods ==
    { "connect", "health", "status", "models.list", "usage.status",
      "sessions.list", "sessions.preview", "sessions.delete", "sessions.reset",
      "sessions.compact", "agent", "agent.run", "agent.identity.get",
      "agent.wait", "agents.list", "send", "chat.send", "chat.history",
      "chat.abort", "config.get", "config.set", "config.patch", "config.schema",
      "node.list", "node.describe", "node.pair.request", "node.pair.list",
      "node.pair.approve" }

\* C8: a request is answered UNKNOWN_METHOD exactly when its method is not
\* in the documented table, and a request of a documented method is
\* answered ok:true with a payload.
C8_UnknownIffUndocumented ==
    probe.phase = "applied" =>
        LET method == probe.frame.method
            hr == probe.hr
        IN  /\ (~hr.threw /\ ~hr.res.ok /\ hr.res.code = "UNKNOWN_METHOD")
                  <=> method \notin DocumentedMethods
            /\ method \in DocumentedMethods =>
                  ~hr.threw /\ hr.res.ok /\ hr.res.payload # NA

\* C11: once the connection has closed, no timer created for it is pending,
\* the agent timers no more than the tick timer.
C11_NoTimerAfterClose ==
    ws.readyState = "CLOSED" => ~Pending(ws)

IsTickCallback(e) == e.op = "timer" /\ e.event = "tick"

\* C12: after the connection's close event or error event no tick callback
\* runs, and after the close event the tick timer is not set.
C12_NoTickCallbackAfterCloseOrError ==
    /\ \A i, j \in TraceIdx :
          (i < j /\ ws.trace[i].op \in {"error", "close"}) => ~IsTickCallback(ws.trace[j])
    /\ ws.readyState = "CLOSED" => ws.timers["d30000"] = << >>

DocumentedWsCategory(frame) ==
    IF frame.kind \in {"invalid", "null", "falsy"} THEN "malformed"
    ELSE IF frame.kind # "obj" THEN "ws_other"
    ELSE CASE LowerMethod(frame.method) = "connect" -> "ws_auth"
           [] LowerMethod(frame.method) = "send" -> "ws_send"
           [] LowerMethod(frame.method) = "agent" -> "ws_agent"
           [] LowerMethod(frame.method) = "health" -> "ws_health"
           [] OTHER -> "ws_other"

\* C18: the first ws_message record of every frame has the category of the
\* documented table: by the lower-cased method, and `malformed` for an
\* absent or unparseable message.
C18_WsCategoryByMethod ==
    \A nf \in FrameIdx :
        \A i \in RecordsOf(nf) :
            (\A j \in RecordsOf(nf) : i <= j) =>
                /\ ws.trace[i].type = "ws_message"
                /\ ws.trace[i].category = DocumentedWsCategory(ws.received[nf])

TickSet == ws.timers["d30000"] # << >>

\* C14: while the connection is open its tick interval is set, whatever
\* requests and agent runs are pending, and as long as the connection
\* stays open the next tick is eventually sent, with no client input.
C14_TickWhileOpen ==
    /\ [](ws.readyState = "OPEN" => TickSet)
    /\ \A k \in 0 .. MaxTicks - 1 :
          (ws.readyState = "OPEN" /\ Ticks(ws) = k)
              ~> (ws.readyState # "OPEN" \/ Ticks(ws) > k)

\* C14 witness: a tick was sent on an open connection after an agent run
\* had been started, and the interval is set again.
C14_Witness ==
    /\ ws.readyState = "OPEN"
    /\ Runs # {}
    /\ \E i \in TraceIdx : IsEvent(ws.trace[i], "tick") /\ \E r \in Runs : r < i
    /\ TickSet


(***************************************************************************)
(* The methods advertised at connect.                                      *)
(***************************************************************************)
\* C31: a request that handleRequest answers is answered ok:true exactly
\* when its method is in features.methods of the hello-ok payload of the
\* same version of the server.
C31_AdvertisedIsHandled ==
    (probe.phase = "applied" /\ ~probe.hr.threw) =>
        (probe.hr.res.ok <=> probe.frame.method \in featuresMethods(probe.variant))

(***************************************************************************)
(* Records per inbound frame.                                              *)
(***************************************************************************)
\* C34: every inbound frame, whatever it holds and whatever its handler
\* does, has made exactly one ws_message record, and totalWsMessages is the
\* number of frames received.
C34_OneRecordPerFrame ==
    /\ \A nf \in FrameIdx :
          /\ Cardinality(RecordsOf(nf)) = 1
          /\ \A i \in RecordsOf(nf) : ws.trace[i].type = "ws_message"
    /\ getStats(store).totalWsMessages = Len(ws.received)

(***************************************************************************)
(* Requests that claim to write.                                           *)
(***************************************************************************)
CallIdx == 1 .. Len(probe.calls)

\* C35: whatever requests were made before, config.get, sessions.list,
\* node.list and node.pair.list return what they return on a fresh server
\* (so two calls of one of them return the same payload, whatever came
\* between them), and the config object is the one the server started with.
C35_RequestsChangeNothing ==
    /\ probe.config = probe.initial
    /\ \A i \in CallIdx :
          probe.calls[i].method \in ReadMethods =>
              LET fresh == handleRequestOn(probe.variant, probe.initial,
                                           ReqFrame(probe.calls[i].method, NoParams))
              IN  /\ probe.calls[i].ok = fresh.hr.res.ok
                  /\ probe.calls[i].detail = fresh.detail
    /\ \A i, j \in CallIdx :
          (probe.calls[i].method = probe.calls[j].method
              /\ probe.calls[i].method \in ReadMethods) =>
                  probe.calls[i].detail = probe.calls[j].detail

\* config.get was answered, then config.set with another service name was
\* acknowledged, then config.get was answered again.
C35_Witness ==
    /\ Len(probe.calls) = 3
    /\ probe.calls[1].method = "config.get" /\ probe.calls[1].ok
    /\ probe.calls[2].method = "config.set" /\ probe.calls[2].ok
    /\ probe.calls[3].method = "config.get" /\ probe.calls[3].ok
    /\ probe.initial.serviceName = "clawdbot"

(***************************************************************************)
(* The run id of an agent run.                                             *)
(***************************************************************************)
\* C37: the agent.started and agent.completed events of a run carry the run
\* id that the queued acknowledgement of the run's request carried.
C37_OneRunId ==
    \A run \in Runs :
        \A i \in ResOf(run) :
            \A j \in EventsOf(run, "agent.started") \cup EventsOf(run, "agent.completed") :
                ws.trace[j].runId = ws.trace[i].runId
(***************************************************************************)
(* Claims about the HTTP gateway.                                          *)
(***************************************************************************)
HttpLogIdx == 1 .. Len(http.log)

HttpRecordsOf(n) == {i \in HttpLogIdx : http.log[i].op = "record" /\ http.log[i].req = n}

HttpAnswersOf(n) == {i \in HttpLogIdx : http.log[i].op # "record" /\ http.log[i].req = n}

\* C1: every request made to the listener (matching a route, matching
\* none, or with a body that fails to parse) has exactly one http record,
\* appended before anything is answered to it, and the store holds one http
\* record per request.
C1_EveryRequestRecordedFirst ==
    /\ \A n \in 1 .. Len(http.requests) :
          /\ Cardinality(HttpRecordsOf(n)) = 1
          /\ \A r \in HttpRecordsOf(n), a \in HttpAnswersOf(n) : r < a
    /\ Cardinality({i \in 1 .. Len(appended) : appended[i].type = "http"})
          = Len(http.requests)

\* The requests the chat-completions route streams, by the claim: a POST
\* of a JSON body whose `stream` member is truthy.
StreamRequests ==
    { n \in 1 .. Len(http.requests) :
        /\ http.requests[n].method = "POST"
        /\ toLowerCase(http.requests[n].path) = <<"/v1/chat/completions">>
        /\ http.requests[n].bodyKind = "object"
        /\ http.requests[n].stream }

\* What was written to request n, in order.
WrittenTo(n) ==
    SelectSeq(http.log, LAMBDA e : e.req = n /\ e.op \notin {"record", "closed"})

\* The content chunks for content of `len` characters left: five characters
\* each, the last one what remains.
RECURSIVE ContentChunks(_, _)
ContentChunks(n, len) ==
    IF len <= 0 THEN << >>
    ELSE <<HttpEntry("write", n, 200, Min(len, 5))>> \o ContentChunks(n, len - 5)

StreamSequence(n) ==
    <<HttpEntry("write", n, 200, 0)>> \o ContentChunks(n, http.contentLen) \o
    <<HttpEntry("final", n, 200, 0), HttpEntry("done", n, 200, 0), HttpEntry("end", n, 200, 0)>>

IsPrefix(s, t) == Len(s) <= Len(t) /\ s = SubSeq(t, 1, Len(s))

\* C15: what is written to a chat-completions request with a truthy
\* `stream` is the initial chunk, the content in chunks of at most five
\* characters, the terminal chunk, [DONE] and the end of the stream, in
\* this order and with nothing after it; the initial chunk is written by
\* the request's handler.
C15_StreamSequence ==
    \A n \in StreamRequests :
        /\ WrittenTo(n) # << >>
        /\ IsPrefix(WrittenTo(n), StreamSequence(n))

\* C16: once the client has closed the socket of a streamed response, no
\* chunk timer of it runs to write again: nothing more is written to it.
C16_NoWriteAfterClientClose ==
    \A i, j \in HttpLogIdx :
        (i < j /\ http.log[i].op = "closed" /\ http.log[j].req = http.log[i].req) =>
            http.log[j].op \notin {"write", "final", "done", "end"}


\* The requests to the tool-invocation route.
ToolRequests ==
    { n \in 1 .. Len(http.requests) :
        /\ http.requests[n].method = "POST"
        /\ toLowerCase(http.requests[n].path) = <<"/tools/invoke">> }

\* The documented table of canned results, by tool name.
ToolTable(tool, argsPath) ==
    IF tool \in {"bash", "shell", "execute"} THEN JsonBody("exec", tool, NA)
    ELSE IF tool = "web_search" THEN JsonBody("search", tool, NA)
    ELSE IF tool \in {"message.send", "send"} THEN JsonBody("sent", tool, NA)
    ELSE IF tool \in {"read_file", "file.read"} THEN JsonBody("read", tool, argsPath)
    ELSE IF tool \in {"write_file", "file.write"} THEN JsonBody("write", tool, argsPath)
    ELSE JsonBody("completed", tool, NA)

\* C27: every POST /tools/invoke is answered once, with {ok: true, tool,
\* result} where the result is the table's entry for the tool, and leaves one
\* http record and nothing else.
C27_ToolInvokeCanned ==
    \A n \in ToolRequests :
        /\ Cardinality(HttpRecordsOf(n)) = 1
        /\ Cardinality(HttpAnswersOf(n)) = 1
        /\ \A a \in HttpAnswersOf(n) :
              /\ http.log[a].op = "respond"
              /\ http.log[a].status = 200
              /\ http.log[a].body = ToolTable(http.requests[n].tool, http.requests[n].argsPath)

\* The requests that match no route: the path is not a defined one, or it
\* is one defined for another method.
Unmatched ==
    { n \in 1 .. Len(http.requests) :
        LET req == http.requests[n]
            p == toLowerCase(req.path)
        IN  ~ \/ req.method = "GET" /\ Len(p) = 1 /\ p[1] \in GetRoutes
              \/ req.method = "POST" /\ Len(p) = 1 /\ p[1] \in PostRoutes }

\* C28: every request that matches no route is answered 404 with a JSON
\* error body naming its path, and has its http record.
C28_UnmatchedIs404 ==
    \A n \in Unmatched :
        /\ Cardinality(HttpRecordsOf(n)) = 1
        /\ Cardinality(HttpAnswersOf(n)) = 1
        /\ \A a \in HttpAnswersOf(n) :
              /\ http.log[a].status = 404
              /\ http.log[a].body = JsonBody("Not Found", NA, http.requests[n].path)
(***************************************************************************)
(* Claims about the mDNS responder.                                        *)
(***************************************************************************)
AcceptedDatagrams == {n \in 1 .. Len(mdns.received) : parseQuery(mdns.received[n].msg).ok}

\* C5: the store holds exactly one mdns_query record for each datagram that
\* parseQuery accepted, and totalMdnsQueries counts them.
C5_EveryAcceptedQueryRecorded ==
    /\ Cardinality({i \in 1 .. Len(appended) : appended[i].type = "mdns_query"})
          = Cardinality(AcceptedDatagrams)
    /\ getStats(store).totalMdnsQueries = Cardinality(AcceptedDatagrams)


\* The offset after the first k questions of a datagram that can be read in
\* full, walking from `offset`: a name, then two bytes of type and two of class.
RECURSIVE questionsEnd(_, _, _)
questionsEnd(msg, offset, k) ==
    IF k = 0 THEN offset
    ELSE LET walked == readName(msg, offset, << >>)
         IN  IF walked.offset > offset /\ CanRead16(msg, walked.offset + 2)
             THEN questionsEnd(msg, walked.offset + 4, k - 1)
             ELSE offset

\* The question section of a datagram: the questions its header counts.
QuestionSection(msg) ==
    BodySlice(msg, HeaderLen, questionsEnd(msg, HeaderLen, msg.qdcount))

RepliesTo(n) == {i \in 1 .. Len(mdns.sent) : mdns.sent[i].n = n}

\* C23: every datagram that parseQuery accepts gets exactly one reply, sent
\* to the address and port it came from, with the id of the query, QR and AA
\* set, the question section of the query, one answer, and five additional
\* records, or six when there is a link-local IPv6 address.
C23_OneReplyEchoingQuery ==
    \A n \in AcceptedDatagrams :
        /\ Cardinality(RepliesTo(n)) = 1
        /\ \A i \in RepliesTo(n) :
              LET got == mdns.received[n]
                  reply == mdns.sent[i].reply
              IN  /\ mdns.sent[i].to = got.rinfo
                  /\ reply.id = got.msg.id
                  /\ reply.qr = 1 /\ reply.aa = 1
                  /\ reply.question = QuestionSection(got.msg)
                  /\ reply.ancount = 1
                  /\ reply.arcount = IF mdns.ipv6 THEN 6 ELSE 5

\* The index of the zero byte that ends the name starting at index i of the
\* bytes, 0 when the chain of labels leaves the bytes before a zero byte.
RECURSIVE nameEnd(_, _)
nameEnd(bytes, i) ==
    IF i > Len(bytes) THEN 0
    ELSE IF bytes[i] = 0 THEN i
    ELSE nameEnd(bytes, i + bytes[i] + 1)

\* The name, type and class of the first question lie within the datagram.
FirstQuestionFits(msg) ==
    LET z == nameEnd(msg.body, 1)
    IN  z > 0 /\ z + 4 <= Len(msg.body)

\* A datagram the responder has to ignore.
Malformed(msg) ==
    \/ msg.hdrLen < HeaderLen
    \/ msg.qr = 1
    \/ msg.qdcount = 0
    \/ ~FirstQuestionFits(msg)

C38_CountsAndLengths ==
    (probe.phase = "built" /\ ~probe.reply.threw) =>
        LET reply == probe.reply
            records == reply.answers \o reply.authority \o reply.additional
        IN  /\ reply.qdcount = Len(reply.questions)
            /\ reply.ancount = Len(reply.answers)
            /\ reply.nscount = Len(reply.authority)
            /\ reply.arcount = Len(reply.additional)
            /\ \A i \in 1 .. Len(records) : records[i].rdlength = records[i].rdata
(***************************************************************************)
(* Claims about the startup.                                               *)
(***************************************************************************)
\* The mDNS port is in use, and the honeypot is to be started.
MdnsInUse ==
    /\ ~probe.env.adminOnly
    /\ probe.env.mdnsEnabled
    /\ probe.env.mdnsBind = "EADDRINUSE"

\* startUiServer rejects: the UI port is in use and the error goes to reject.
UiRejects ==
    probe.env.uiEnabled /\ probe.env.uiBind # "ok" /\ ~probe.env.listenCallsBack

CarriedCredentials(header) ==
    LET bytes == header.text.bytes
        colons == {i \in 1 .. Len(bytes) : bytes[i] = ":"}
        first == CHOOSE i \in colons : \A j \in colons : i <= j
    IN  IF header.prefix # "Basic " \/ colons = {}
        THEN [carried |-> FALSE, username |-> << >>, password |-> << >>]
        ELSE [ carried |-> TRUE, username |-> SubSeq(bytes, 1, first - 1),
               password |-> SubSeq(bytes, first + 1, Len(bytes)) ]

Authorized(header) ==
    LET c == CarriedCredentials(header)
    IN  c.carried /\ c.username = AdminUsername /\ c.password = AdminPassword

\* C32: a request to the admin server gets the content of its route only
\* when it carries Basic credentials whose user name and password are the
\* configured ones; any other request is answered 401 with one of the two
\* fixed texts and nothing of the store.
C32_ContentOnlyWithCredentials ==
    \A n \in 1 .. Len(probe.requests) :
        LET req == probe.requests[n]
            res == probe.log[n]
        IN  /\ ~Authorized(req.header) =>
                  /\ res.status = 401
                  /\ res.kind \in {"Authentication required", "Invalid credentials"}
            /\ Authorized(req.header) => res.status # 401

(***************************************************************************)
(* The dashboard's stream.                                                 *)
(***************************************************************************)
\* The records written to the stream as `attack` events, in order.
AttacksWritten ==
    LET events == SelectSeq(probe.stream.written, LAMBDA e : e.type = "attack")
    IN  [i \in 1 .. Len(events) |-> events[i].data]

\* The records made since the stream was opened, in arrival order.
MadeSinceOpen == SubSeq(appended, probe.stream.since + 1, Len(appended))

\* C33: what is written to an open stream as attack events is always the
\* first records made since it was opened, each once and in arrival order;
\* every record made while the stream is open is eventually among them,
\* unless the client goes away; and once the client has gone away nothing
\* more is written.
C33_StreamDeliversEveryAttack ==
    /\ [](probe.stream.state # "none" =>
            /\ Len(AttacksWritten) <= Len(MadeSinceOpen)
            /\ AttacksWritten = SubSeq(MadeSinceOpen, 1, Len(AttacksWritten)))
    /\ [](probe.stream.state = "closed" =>
            Len(probe.stream.written) = probe.stream.closedWith)
    /\ \A i \in 1 .. MaxEvents :
          (probe.stream.state = "open" /\ probe.stream.since < i /\ i <= Len(appended))
              ~> (\/ probe.stream.state = "closed"
                  \/ Len(AttacksWritten) >= i - probe.stream.since)
=============================================================================
